---- MODULE Spec2Model ----
(***************************************************************************)
(* PCSResourceManager of cockpit-file-sharing (iSCSI tab): the cached      *)
(* snapshot of the cluster manager's resources, the operations that issue  *)
(* pcs commands and patch the snapshot, and the active-node resolution of  *)
(* a resource group.                                                       *)
(*                                                                         *)
(* Strings the code inspects character by character (resource names,       *)
(* creation arguments) are sequences of one-character strings.  Group      *)
(* names and node names are never inspected and stay atomic strings.       *)
(***************************************************************************)
EXTENDS Integers, Sequences, FiniteSets, TLC

VARIABLES
    currentResources,   \* PCSResourceManager.currentResources: [defined, items]
    last,               \* the call that ended last: arguments, commands issued, result
    prev,               \* summary of the call before it
    call,               \* getGroupActiveNode in progress: its locals and position
    statusText,         \* what `pcs status` prints when it is asked
    pcsGroups,          \* the groups of the cluster manager's configuration: [id, member_ids]
    classified,         \* a primitive and what getResourceTypeOfPCSResource made of it
    scst                \* the SCST host: the configuration file and the running configuration

vars == <<currentResources, last, prev, call, statusText, pcsGroups, classified, scst>>

---------------------------------------------------------------------------
(* Bounds of the model *)

\* longest snapshot (and longest remote configuration) of the lifecycle model
MaxRes == 2
\* most cached resources in the insertion-point model
MaxGroup == 3
\* most cached resources in the active-node model
MaxMembers == 3
\* most lines of a `pcs status` text
MaxLines == 3

---------------------------------------------------------------------------
(* Strings *)

NoName == <<>>
NoGroup == "undefined"
NoNode == "undefined"

\* String.prototype.includes
Includes(s, sub) ==
    \E i \in 0..(Len(s) - Len(sub)) : SubSeq(s, i + 1, i + Len(sub)) = sub

\* index of the first occurrence of character c in s, 0 when there is none
FirstIndexOf(s, c) ==
    IF \E i \in 1..Len(s) : s[i] = c
    THEN CHOOSE i \in 1..Len(s) : s[i] = c /\ \A j \in 1..(i - 1) : s[j] # c
    ELSE 0

\* String.prototype.replace with a string pattern: the first occurrence only
ReplaceFirstChar(s, c, d) ==
    LET k == FirstIndexOf(s, c)
    IN  [i \in 1..Len(s) |-> IF i = k THEN d ELSE s[i]]

HasLineFeed(value) == \E i \in 1..Len(value) : value[i] = "\n"

\* /[\r\n]/.test(value)
HasLineBreak(value) == \E i \in 1..Len(value) : value[i] \in {"\n", "\r"}

\* ensureSingleLine(value, label): TRUE when the value passes
ensureSingleLine(value) == ~HasLineBreak(value)

---------------------------------------------------------------------------
(* Resource types *)

PCSResourceType == {"PORTBLOCK_ON", "VIP", "LVM", "TARGET", "LUN", "PORTBLOCK_OFF"}

\* PCSResourceTypeInfo[t].orderInGroup
orderInGroup(t) ==
    CASE t = "PORTBLOCK_ON"  -> 0
      [] t = "VIP"           -> 1
      [] t = "LVM"           -> 2
      [] t = "TARGET"        -> 3
      [] t = "LUN"           -> 4
      [] t = "PORTBLOCK_OFF" -> 5

\* PCSResourceTypeInfo[t].internalTypeName
internalTypeName(t) ==
    CASE t = "PORTBLOCK_ON"  -> "portblock"
      [] t = "VIP"           -> "IPaddr2"
      [] t = "LVM"           -> "LVM-activate"
      [] t = "TARGET"        -> "iSCSITarget"
      [] t = "LUN"           -> "iSCSILogicalUnit"
      [] t = "PORTBLOCK_OFF" -> "portblock"

\* new PCSResource(name, resourceType, resourceGroup)
PCSResource(name, type, group) ==
    [name |-> name, resourceType |-> type, resourceGroup |-> group]

---------------------------------------------------------------------------
(* Sequences *)

RECURSIVE SelectSeqBy(_, _)
\* Array.prototype.filter with the predicate given as the set of kept indices
SelectSeqBy(s, keep) ==
    IF s = <<>> THEN <<>>
    ELSE LET rest == SelectSeqBy(Tail(s), {i - 1 : i \in keep \ {1}})
         IN  IF 1 \in keep THEN <<Head(s)>> \o rest ELSE rest

\* a filter that drops the first match only
FilterFirstByName(items, name) ==
    SelectSeqBy(items, {i \in 1..Len(items) :
        items[i].name # name \/ \E j \in 1..(i - 1) : items[j].name = name})

FilterByName(items, name) ==
    SelectSeqBy(items, {i \in 1..Len(items) : items[i].name # name})

\* a filter that keeps the resources without a group only
FilterGrouped(items, group) ==
    SelectSeqBy(items, {i \in 1..Len(items) : items[i].resourceGroup = NoGroup})

\* filter(existingResource => existingResource.resourceGroup?.name !== group)
FilterByGroup(items, group) ==
    SelectSeqBy(items, {i \in 1..Len(items) : items[i].resourceGroup # group})

MembersOf(items, group) ==
    SelectSeqBy(items, {i \in 1..Len(items) : items[i].resourceGroup = group})

RECURSIVE InsertByRank(_, _)
InsertByRank(sorted, r) ==
    IF sorted = <<>> THEN <<r>>
    ELSE IF orderInGroup(r.resourceType) < orderInGroup(Head(sorted).resourceType)
         THEN <<r>> \o sorted
         ELSE <<Head(sorted)>> \o InsertByRank(Tail(sorted), r)

RECURSIVE SortByRank(_)
\* Array.prototype.sort by orderInGroup difference (stable)
SortByRank(s) ==
    IF s = <<>> THEN <<>>
    ELSE InsertByRank(SortByRank(SubSeq(s, 1, Len(s) - 1)), s[Len(s)])

---------------------------------------------------------------------------
(* Remote commands and results *)

\* one server.execute(...): the command and whether it succeeded
Cmd(kind, shell, res, grp, before, ok) ==
    [kind |-> kind, shell |-> shell, res |-> res, grp |-> grp,
     before |-> before, ok |-> ok]

BulkQuery(ok) == Cmd("resource config", FALSE, NoName, NoGroup, NoName, ok)

\* the arguments of a call
In(name, group, args, type, alias) ==
    [name |-> name, group |-> group, args |-> args, type |-> type, alias |-> alias]

NoIn == In(NoName, NoGroup, <<>>, "undefined", 0)

\* the record of one finished call; `named` is the group a failure message quotes
Call(op, in, pre, result, cmds, ret) ==
    [op |-> op, in |-> in, pre |-> pre, result |-> result, cmds |-> cmds, ret |-> ret,
     named |-> NoGroup]

\* a call that failed with a message quoting the group
Failed(op, in, pre, message, cmds, group) ==
    [Call(op, in, pre, message, cmds, <<>>) EXCEPT !.named = group]

NoCall == Call("none", NoIn, [defined |-> FALSE, items |-> <<>>], "ok", <<>>, <<>>)

\* what is kept of the call before the last one: the outcome of a fetchResources
\* or createResource call
Summary(c) ==
    IF c.op \in {"fetchResources", "createResource"}
    THEN [op |-> c.op, result |-> c.result, ret |-> c.ret, ncmds |-> Len(c.cmds),
          preDefined |-> c.pre.defined]
    ELSE [op |-> "other", result |-> "ok", ret |-> <<>>, ncmds |-> 0,
          preDefined |-> FALSE]

Undefined == [defined |-> FALSE, items |-> <<>>]
Defined(items) == [defined |-> TRUE, items |-> items]

---------------------------------------------------------------------------
(* The cluster manager's configuration, as `pcs resource config` prints it *)

TypeOrder == <<"PORTBLOCK_ON", "VIP", "LVM", "TARGET", "LUN", "PORTBLOCK_OFF">>

\* the first nvpair named "action", in the order of the nested loops
ActionOf(nvpairs) ==
    IF \E i \in 1..Len(nvpairs) : nvpairs[i].name = "action"
    THEN LET k == CHOOSE i \in 1..Len(nvpairs) :
                      /\ nvpairs[i].name = "action"
                      /\ \A j \in 1..(i - 1) : nvpairs[j].name # "action"
         IN  nvpairs[k].value
    ELSE "undefined"

RECURSIVE TypeFrom(_, _)
\* the loop of getResourceTypeOfPCSResource from the k-th enum member on
TypeFrom(resource, k) ==
    IF k > Len(TypeOrder) THEN "undefined"
    ELSE IF internalTypeName(TypeOrder[k]) = resource.agent
         THEN IF resource.agent = "portblock"
              THEN IF ActionOf(resource.nvpairs) # "undefined"
                   THEN IF ActionOf(resource.nvpairs) = "block"
                        THEN "PORTBLOCK_ON" ELSE "PORTBLOCK_OFF"
                   ELSE TypeFrom(resource, k + 1)
              ELSE TypeOrder[k]
         ELSE TypeFrom(resource, k + 1)

\* the classification by the agent name alone: the first enum member of that agent
classifyByAgentOnly(resource) ==
    IF \E k \in 1..Len(TypeOrder) : internalTypeName(TypeOrder[k]) = resource.agent
    THEN TypeOrder[CHOOSE k \in 1..Len(TypeOrder) :
                       /\ internalTypeName(TypeOrder[k]) = resource.agent
                       /\ \A j \in 1..(k - 1) :
                              internalTypeName(TypeOrder[j]) # resource.agent]
    ELSE "undefined"

getResourceTypeOfPCSResource(resource) == TypeFrom(resource, 1)

\* the numeric value of an enum member
EnumValue(t) == (CHOOSE k \in 1..Len(TypeOrder) : TypeOrder[k] = t) - 1

\* !resourceType
IsFalsyType(t) == t = "undefined" \/ EnumValue(t) = 0

\* groups.find(g => g.member_ids.includes(id))?.id
GroupOfId(groups, id) ==
    IF \E i \in 1..Len(groups) : \E j \in 1..Len(groups[i].member_ids) :
           groups[i].member_ids[j] = id
    THEN LET k == CHOOSE i \in 1..Len(groups) :
                      /\ \E j \in 1..Len(groups[i].member_ids) : groups[i].member_ids[j] = id
                      /\ \A h \in 1..(i - 1) : \A j \in 1..Len(groups[h].member_ids) :
                             groups[h].member_ids[j] # id
         IN  groups[k].id
    ELSE NoGroup

\* the map callback without the test of the TARGET's group
KeepsEveryTyped(cfg, p) == ~IsFalsyType(getResourceTypeOfPCSResource(p))

\* whether the map callback of fetchResources keeps the primitive
KeepsPrimitive(cfg, p) ==
    LET t == getResourceTypeOfPCSResource(p)
    IN  /\ ~IsFalsyType(t)
        /\ (t # "TARGET" \/ GroupOfId(cfg.groups, p.id) # NoGroup)

\* the resources fetchResources builds from a decoded configuration
Decode(cfg) ==
    LET kept == SelectSeqBy(cfg.primitives,
                    {i \in 1..Len(cfg.primitives) : KeepsPrimitive(cfg, cfg.primitives[i])})
    IN  [i \in 1..Len(kept) |->
            PCSResource(kept[i].id, getResourceTypeOfPCSResource(kept[i]),
                        GroupOfId(cfg.groups, kept[i].id))]

---------------------------------------------------------------------------
(* Inputs of the lifecycle model *)

\* names callers pass to createResource (iSCSI names carry colons): without a
\* colon, with one, with two
InputNames == {<<"b", "_">>, <<"b", ":">>, <<"b", ":", ":">>}

\* names resources can have in the cluster manager
ResourceNames == {ReplaceFirstChar(n, ":", "_") : n \in InputNames}

\* creation arguments and update parameters
ArgPool == {<<"x">>, <<"x", "\n">>, <<"\r", "x">>}

GroupNames == {"g1", "g2"}

LifecycleTypes == {"VIP", "TARGET"}

\* agents of the primitives the cluster manager reports
AgentPool == {"IPaddr2", "iSCSITarget", "Dummy"}

\* sequences without repetition over S, of length n
RECURSIVE DistinctSeqs(_, _)
DistinctSeqs(S, n) ==
    IF n = 0 THEN {<<>>}
    ELSE UNION {{<<x>> \o u : u \in {t \in DistinctSeqs(S, n - 1) :
                                        \A i \in 1..Len(t) : t[i] # x}} : x \in S}

\* the groups of a configuration whose primitives ids[i] sit in group grp[i]
GroupsFor(ids, grp) ==
    LET used == SelectSeqBy(<<"g1", "g2">>,
                    {k \in 1..2 : \E i \in 1..Len(ids) : grp[i] = <<"g1", "g2">>[k]})
    IN  [k \in 1..Len(used) |->
            [id |-> used[k],
             member_ids |-> SelectSeqBy(ids, {i \in 1..Len(ids) : grp[i] = used[k]})]]

\* what the bulk query can answer: up to MaxRes primitives, each in a group or in none
RemoteConfigs ==
    UNION {{[primitives |-> [i \in 1..n |-> [id |-> ids[i], agent |-> ag[i], nvpairs |-> <<>>]],
             groups |-> GroupsFor(ids, grp)] :
               ids \in DistinctSeqs(ResourceNames, n),
               ag \in [1..n -> AgentPool],
               grp \in [1..n -> GroupNames \cup {NoGroup}]} : n \in 0..MaxRes}

---------------------------------------------------------------------------
(* fetchResources *)

\* fetchResources without the early return on a populated snapshot
FetchAlwaysQueries(cache) ==
    {[result |-> "Unable to get current PCS configuration", cache |-> cache,
      cmds |-> <<BulkQuery(FALSE)>>, ret |-> <<>>]}
    \cup {[result |-> "ok", cache |-> Defined(Decode(cfg)),
           cmds |-> <<BulkQuery(TRUE)>>, ret |-> Decode(cfg)] : cfg \in RemoteConfigs}

\* fetchResources keeping an empty snapshot when the bulk query failed
FetchCachesFailure(cache) ==
    IF cache.defined
    THEN {[result |-> "ok", cache |-> cache, cmds |-> <<>>, ret |-> cache.items]}
    ELSE {[result |-> "Unable to get current PCS configuration", cache |-> Defined(<<>>),
           cmds |-> <<BulkQuery(FALSE)>>, ret |-> <<>>]}
         \cup {[result |-> "ok", cache |-> Defined(Decode(cfg)),
                cmds |-> <<BulkQuery(TRUE)>>, ret |-> Decode(cfg)] : cfg \in RemoteConfigs}

\* the ways fetchResources can end: result, snapshot afterwards, commands, value
FetchOutcomes(cache) ==
    IF cache.defined
    THEN {[result |-> "ok", cache |-> cache, cmds |-> <<>>, ret |-> cache.items]}
    ELSE {[result |-> "Unable to get current PCS configuration", cache |-> cache,
           cmds |-> <<BulkQuery(FALSE)>>, ret |-> <<>>]}
         \cup {[result |-> "ok", cache |-> Defined(Decode(cfg)),
                cmds |-> <<BulkQuery(TRUE)>>, ret |-> Decode(cfg)] : cfg \in RemoteConfigs}

\* a call ends: it becomes `last`, and the one before it is summarised
Finish(c) ==
    /\ last' = c
    /\ prev' = Summary(last)

fetchResources ==
    \E o \in FetchOutcomes(currentResources) :
        /\ currentResources' = o.cache
        /\ Finish(Call("fetchResources", NoIn, currentResources,
                       o.result, o.cmds, o.ret))
        /\ UNCHANGED <<call, statusText, pcsGroups, classified, scst>>

fetchResourceByName(resourceName) ==
    \E o \in FetchOutcomes(currentResources) :
        /\ currentResources' = o.cache
        /\ Finish(Call("fetchResourceByName",
                       In(resourceName, NoGroup, <<>>, "undefined", 0), currentResources,
                       o.result, o.cmds,
                       SelectSeqBy(o.ret, {i \in 1..Len(o.ret) :
                           /\ o.ret[i].name = resourceName
                           /\ \A j \in 1..(i - 1) : o.ret[j].name # resourceName})))
        /\ UNCHANGED <<call, statusText, pcsGroups, classified, scst>>

---------------------------------------------------------------------------
(* Resource lifecycle *)

\* the result of a chain whose remote command failed
RemoteError == "ProcessError"
\* the result of a chain whose map callback threw on the absent snapshot
Thrown == "TypeError"
SingleLineError == "must be a single line"

CreateCommand(resourceName, ok) ==
    Cmd("resource create", TRUE, resourceName, NoGroup, NoName, ok)

createResource(name, creationArguments, type) ==
    LET resourceName == ReplaceFirstChar(name, ":", "_")
        resource == PCSResource(resourceName, type, NoGroup)
        in == In(name, NoGroup, creationArguments, type, 0)
    IN  /\ IF ~ensureSingleLine(creationArguments)
           THEN /\ Finish(Call("createResource", in, currentResources,
                               SingleLineError, <<>>, <<>>))
                /\ UNCHANGED currentResources
           ELSE \E ok \in BOOLEAN :
                  IF ~ok
                  THEN /\ Finish(Call("createResource", in, currentResources, RemoteError,
                                      <<CreateCommand(resourceName, FALSE)>>, <<>>))
                       /\ UNCHANGED currentResources
                  ELSE IF ~currentResources.defined
                  THEN /\ Finish(Call("createResource", in, currentResources, Thrown,
                                      <<CreateCommand(resourceName, TRUE)>>, <<>>))
                       /\ UNCHANGED currentResources
                  ELSE /\ Finish(Call("createResource", in, currentResources, "ok",
                                      <<CreateCommand(resourceName, TRUE)>>, <<resource>>))
                       /\ currentResources' =
                              Defined(Append(currentResources.items, resource))
        /\ UNCHANGED <<call, statusText, pcsGroups, classified, scst>>

\* a command followed by a map callback that patches the snapshot with `patched`
CommandThenPatch(op, in, cmd, patched) ==
    /\ \E ok \in BOOLEAN :
          IF ~ok
          THEN /\ Finish(Call(op, in, currentResources, RemoteError,
                              <<[cmd EXCEPT !.ok = FALSE]>>, <<>>))
               /\ UNCHANGED currentResources
          ELSE IF ~currentResources.defined
          THEN /\ Finish(Call(op, in, currentResources, Thrown, <<cmd>>, <<>>))
               /\ UNCHANGED currentResources
          ELSE /\ Finish(Call(op, in, currentResources, "ok", <<cmd>>, <<>>))
               /\ currentResources' = Defined(patched)
    /\ UNCHANGED <<call, statusText, pcsGroups, classified, scst>>

\* a command that is issued a second time when it failed
CommandRetried(op, in, cmd) ==
    /\ \E ok \in BOOLEAN, again \in BOOLEAN :
          Finish(Call(op, in, currentResources,
                      IF ok \/ again THEN "ok" ELSE RemoteError,
                      IF ok THEN <<cmd>>
                      ELSE <<[cmd EXCEPT !.ok = FALSE], [cmd EXCEPT !.ok = again]>>,
                      <<>>))
    /\ UNCHANGED <<currentResources, call, statusText, pcsGroups, classified, scst>>

\* a command whose success drops the snapshot, so that the next read queries again
CommandInvalidates(op, in, cmd) ==
    /\ \E ok \in BOOLEAN :
          /\ Finish(Call(op, in, currentResources, IF ok THEN "ok" ELSE RemoteError,
                         <<[cmd EXCEPT !.ok = ok]>>, <<>>))
          /\ currentResources' = IF ok THEN Undefined ELSE currentResources
    /\ UNCHANGED <<call, statusText, pcsGroups, classified, scst>>

\* a command followed by .map(() => undefined)
CommandOnly(op, in, cmd) ==
    /\ \E ok \in BOOLEAN :
          Finish(Call(op, in, currentResources, IF ok THEN "ok" ELSE RemoteError,
                      <<[cmd EXCEPT !.ok = ok]>>, <<>>))
    /\ UNCHANGED <<currentResources, call, statusText, pcsGroups, classified, scst>>

deleteResource(name) ==
    CommandThenPatch("deleteResource", In(name, NoGroup, <<>>, "undefined", 0),
                     Cmd("resource delete", FALSE, name, NoGroup, NoName, TRUE),
                     FilterByName(currentResources.items, name))

disableResource(name) ==
    CommandOnly("disableResource", In(name, NoGroup, <<>>, "undefined", 0),
                Cmd("resource disable", FALSE, name, NoGroup, NoName, TRUE))

deleteResourceGroup(group) ==
    CommandThenPatch("deleteResourceGroup", In(NoName, group, <<>>, "undefined", 0),
                     Cmd("resource delete", FALSE, NoName, group, NoName, TRUE),
                     FilterByGroup(currentResources.items, group))

updateResource(name, parameters) ==
    LET in == In(name, NoGroup, parameters, "undefined", 0)
    IN  IF ~ensureSingleLine(parameters)
        THEN /\ Finish(Call("updateResource", in, currentResources,
                            SingleLineError, <<>>, <<>>))
             /\ UNCHANGED <<currentResources, call, statusText, pcsGroups, classified, scst>>
        ELSE CommandOnly("updateResource", in,
                         Cmd("resource update", TRUE, name, NoGroup, NoName, TRUE))

removeResourceFromGroup(group, name) ==
    CommandOnly("removeResourceFromGroup", In(name, group, <<>>, "undefined", 0),
                Cmd("resource ungroup", FALSE, name, group, NoName, TRUE))

---------------------------------------------------------------------------
(* Constraints, enabling, the configuration of one resource *)

constrainResourceToGroup(name, group) ==
    CommandOnly("constrainResourceToGroup", In(name, group, <<>>, "undefined", 0),
                Cmd("constraint colocation add", FALSE, name, group, NoName, TRUE))

\* a colocation identifier built from the group the snapshot holds for the resource
colocationIdOfRecord(resourceName, resourceGroupName) ==
    LET held == {i \in 1..Len(currentResources.items) :
                    currentResources.items[i].name = resourceName}
    IN  <<"colocation-RBD_">> \o resourceName
        \o <<"-", IF held = {} THEN resourceGroupName
                  ELSE currentResources.items[CHOOSE i \in held : TRUE].resourceGroup,
             "-INFINITY">>

\* `colocation-RBD_${resourceName}-${resourceGroupName}-INFINITY`
colocationId(resourceName, resourceGroupName) ==
    <<"colocation-RBD_">> \o resourceName \o <<"-", resourceGroupName, "-INFINITY">>

\* `order-RBD_${resourceName}-${resourceGroupName}-mandatory`
orderId(resourceName, resourceGroupName) ==
    <<"order-RBD_">> \o resourceName \o <<"-", resourceGroupName, "-mandatory">>

\* pcs constraint remove <identifier>: the identifier is the only argument
unconstainResourceFromGroup(name, group) ==
    CommandOnly("unconstainResourceFromGroup", In(name, group, <<>>, "undefined", 0),
                Cmd("constraint remove", FALSE, colocationId(name, group), NoGroup,
                    NoName, TRUE))

enableResources(name) ==
    CommandOnly("enableResources", In(name, NoGroup, <<>>, "undefined", 0),
                Cmd("resource enable", FALSE, name, NoGroup, NoName, TRUE))

orderResourceBeforeGroup(name, group) ==
    CommandOnly("orderResourceBeforeGroup", In(name, group, <<>>, "undefined", 0),
                Cmd("constraint order", FALSE, name, group, NoName, TRUE))

removeResourcefromOrderGroup(name, group) ==
    CommandOnly("removeResourcefromOrderGroup", In(name, group, <<>>, "undefined", 0),
                Cmd("constraint remove", FALSE, orderId(name, group), NoGroup,
                    NoName, TRUE))

ParseError == "ParsingError"

\* fetchResourceConfig dropping the snapshot once the configuration was read
fetchResourceConfigInvalidates(name) ==
    LET in == In(name, NoGroup, <<>>, "undefined", 0)
        cmd == Cmd("resource config", FALSE, name, NoGroup, NoName, TRUE)
    IN  /\ \/ /\ Finish(Call("fetchResourceConfig", in, currentResources, RemoteError,
                              <<[cmd EXCEPT !.ok = FALSE]>>, <<>>))
              /\ UNCHANGED currentResources
           \/ /\ Finish(Call("fetchResourceConfig", in, currentResources, "ok",
                              <<cmd>>, <<>>))
              /\ currentResources' = Undefined
        /\ UNCHANGED <<call, statusText, pcsGroups, classified, scst>>

\* the command fails, its output does not parse, or the configuration is returned
fetchResourceConfig(name) ==
    LET in == In(name, NoGroup, <<>>, "undefined", 0)
        cmd == Cmd("resource config", FALSE, name, NoGroup, NoName, TRUE)
    IN  /\ \/ Finish(Call("fetchResourceConfig", in, currentResources, RemoteError,
                           <<[cmd EXCEPT !.ok = FALSE]>>, <<>>))
           \/ \E result \in {ParseError, "ok"} :
                 Finish(Call("fetchResourceConfig", in, currentResources, result,
                             <<cmd>>, <<>>))
        /\ UNCHANGED <<currentResources, call, statusText, pcsGroups, classified, scst>>

---------------------------------------------------------------------------
(* Group composition *)

\* the find with < in place of <=
FindAbove(sorted, rank) ==
    SelectSeqBy(sorted, {i \in 1..Len(sorted) :
        /\ rank < orderInGroup(sorted[i].resourceType)
        /\ \A j \in 1..(i - 1) : ~(rank < orderInGroup(sorted[j].resourceType))})

\* Array.prototype.find on ranks: the first resource of `sorted` whose rank is at
\* least `rank`, as a sequence of no or one resource
FindAtOrAbove(sorted, rank) ==
    SelectSeqBy(sorted, {i \in 1..Len(sorted) :
        /\ rank <= orderInGroup(sorted[i].resourceType)
        /\ \A j \in 1..(i - 1) : ~(rank <= orderInGroup(sorted[j].resourceType))})

\* nextResource of addResourceToGroup
nextResource(resources, type, group) ==
    FindAtOrAbove(SortByRank(MembersOf(resources, group)), orderInGroup(type))

\* the name after --before, NoName when positionArgument is empty
positionArgument(resources, type, group) ==
    LET next == nextResource(resources, type, group)
    IN  IF next = <<>> THEN NoName ELSE next[1].name

\* resource.resourceGroup = resourceGroup, on the object the caller passed: the
\* alias-th element of the snapshot, or an object the snapshot does not hold (0)
SetGroupOf(cache, alias, group) ==
    IF alias = 0 THEN cache
    ELSE Defined([cache.items EXCEPT ![alias].resourceGroup = group])

\* what the cluster manager makes of the command (pcsGroups) is stated by the
\* specification that uses the action
addResourceToGroup(alias, name, type, group) ==
    LET in == In(name, group, <<>>, type, alias)
    IN  /\ alias # 0 =>
              /\ currentResources.defined
              /\ alias \in 1..Len(currentResources.items)
              /\ currentResources.items[alias].name = name
              /\ currentResources.items[alias].resourceType = type
        /\ \E o \in FetchOutcomes(currentResources) :
              IF o.result # "ok"
              THEN /\ Finish(Call("addResourceToGroup", in, currentResources,
                                  o.result, o.cmds, <<>>))
                   /\ currentResources' = o.cache
              ELSE \E ok \in BOOLEAN :
                     /\ Finish(Call("addResourceToGroup", in, currentResources,
                                    IF ok THEN "ok" ELSE RemoteError,
                                    Append(o.cmds,
                                           Cmd("resource group add", FALSE, name, group,
                                               positionArgument(o.ret, type, group), ok)),
                                    <<>>))
                     /\ currentResources' = SetGroupOf(o.cache, alias, group)
        /\ UNCHANGED <<call, statusText, classified, scst>>

---------------------------------------------------------------------------
(* The lifecycle model: any sequence of calls on one PCSResourceManager *)

\* no SCST host looked at
NoInput == [names |-> <<>>, path |-> <<>>, size |-> [finite |-> TRUE, n |-> 1, text |-> "1"]]

NoScst ==
    [path |-> <<>>, file |-> "absent", live |-> "none", before |-> "absent", saves |-> 0,
     input |-> NoInput]

\* no primitive classified yet
NotClassified ==
    [resource |-> [id |-> NoName, agent |-> "none", nvpairs |-> <<>>], type |-> "none"]

\* no getGroupActiveNode call in progress
Idle ==
    [pc |-> "idle", group |-> NoGroup, pre |-> [defined |-> FALSE, items |-> <<>>],
     members |-> <<>>, perMember |-> <<>>, nodeCounts |-> <<>>, chosen |-> "undefined",
     cmds |-> <<>>, outstanding |-> <<>>, result |-> "none",
     diag |-> [members |-> <<>>, perMember |-> <<>>]]

Init ==
    /\ currentResources = Undefined
    /\ last = NoCall
    /\ prev = Summary(NoCall)
    /\ call = Idle
    /\ statusText = <<>>
    /\ pcsGroups = <<>>
    /\ classified = NotClassified
    /\ scst = NoScst

Next ==
    \/ fetchResources
    \/ \E n \in InputNames, a \in ArgPool, t \in LifecycleTypes :
           /\ currentResources.defined => Len(currentResources.items) < MaxRes
           /\ createResource(n, a, t)
    \/ \E n \in ResourceNames : deleteResource(n)
    \/ \E g \in GroupNames : deleteResourceGroup(g)
    \/ \E n \in ResourceNames, a \in ArgPool : updateResource(n, a)
    \/ \E i \in 0..MaxRes, n \in ResourceNames, t \in LifecycleTypes, g \in GroupNames :
           addResourceToGroup(i, n, t, g) /\ UNCHANGED pcsGroups

Spec == Init /\ [][Next]_vars

---------------------------------------------------------------------------
(* Properties of the lifecycle model *)

Mutators == {"createResource", "deleteResource", "deleteResourceGroup", "addResourceToGroup"}

IsBulkQuery(c) == c.kind = "resource config" /\ c.res = NoName

BulkQueriesIn(cmds) == Cardinality({i \in 1..Len(cmds) : IsBulkQuery(cmds[i])})

\* C1: a fetchResources call on a populated snapshot issues no remote query and
\* returns the snapshot; two fetchResources calls in a row, the first of which
\* populated the snapshot, issue one bulk query in total and return the same sequence.
C1_FetchIdempotent ==
    /\ (last.op = "fetchResources" /\ last.pre.defined) =>
           /\ last.cmds = <<>>
           /\ last.result = "ok"
           /\ last.ret = last.pre.items
           /\ currentResources = last.pre
    /\ (last.op = "fetchResources" /\ prev.op = "fetchResources" /\ prev.result = "ok") =>
           /\ last.result = "ok"
           /\ last.ret = prev.ret
           /\ prev.ncmds + BulkQueriesIn(last.cmds) = (IF prev.preDefined THEN 0 ELSE 1)

C1_Witness ==
    /\ last.op = "fetchResources" /\ prev.op = "fetchResources"
    /\ prev.result = "ok" /\ ~prev.preDefined
    /\ Len(last.ret) = 2

\* C2: createResource and updateResource whose arguments hold a line feed or a
\* carriage return fail with the single-line failure, issue no command and leave
\* the snapshot as it was.
C2_ValidationShortCircuits ==
    (/\ last.op \in {"createResource", "updateResource"}
     /\ \E i \in 1..Len(last.in.args) : last.in.args[i] \in {"\n", "\r"}) =>
        /\ last.result = SingleLineError
        /\ last.cmds = <<>>
        /\ currentResources = last.pre

C2_Witness ==
    /\ last.op = "createResource"
    /\ last.in.args = <<"\r", "x">>
    /\ last.pre.defined /\ Len(last.pre.items) = 1
    /\ last.result = SingleLineError

\* C3: when the remote command of a mutating operation fails, the populated
\* snapshot, group references included, is what it was before the call.
C3_FailedMutationKeepsCache ==
    (/\ last.op \in Mutators
     /\ last.pre.defined
     /\ last.result = RemoteError) =>
        currentResources = last.pre

\* C4: a successful createResource directly followed by a successful
\* deleteResource of the created name leaves no resource of that name in the
\* snapshot and keeps every other resource, in order.
C4_CreateDeleteRoundTrip ==
    (/\ last.op = "deleteResource" /\ last.result = "ok"
     /\ prev.op = "createResource" /\ prev.result = "ok"
     /\ last.in.name = prev.ret[1].name) =>
        /\ currentResources.defined
        /\ \A i \in 1..Len(currentResources.items) :
               currentResources.items[i].name # last.in.name
        /\ currentResources.items =
               SelectSeqBy(last.pre.items,
                   {i \in 1..Len(last.pre.items) : last.pre.items[i].name # last.in.name})

C4_Witness ==
    /\ last.op = "deleteResource" /\ last.result = "ok"
    /\ prev.op = "createResource" /\ prev.result = "ok"
    /\ last.in.name = prev.ret[1].name
    /\ Len(last.pre.items) = 2
    /\ Len(currentResources.items) = 1

HasColon(name) == \E i \in 1..Len(name) : name[i] = ":"

\* C14: the name in the create command, and the name of the resource that
\* createResource appends and returns, hold no colon, whatever name is passed.
C14_NoColonInCreatedName ==
    last.op = "createResource" =>
        /\ \A i \in 1..Len(last.cmds) : ~HasColon(last.cmds[i].res)
        /\ last.result = "ok" =>
               /\ ~HasColon(last.ret[1].name)
               /\ ~HasColon(currentResources.items[Len(currentResources.items)].name)

\* C15: whenever the create command succeeds, createResource returns the new
\* resource and the snapshot is the one before the call with that resource
\* appended, also when no fetchResources call has populated the snapshot yet.
C15_CreateAppends ==
    (last.op = "createResource" /\ last.cmds # <<>> /\ last.cmds[1].ok) =>
        /\ last.result = "ok"
        /\ Len(last.ret) = 1
        /\ currentResources = Defined(Append(last.pre.items, last.ret[1]))

\* the cached TARGETs without a group reference
UngroupedTargets(items) ==
    {i \in 1..Len(items) :
        items[i].resourceType = "TARGET" /\ items[i].resourceGroup = NoGroup}

\* C16 as claimed: in every reachable state every cached TARGET has a group
\* reference.
C16_CachedTargetsGrouped ==
    currentResources.defined => UngroupedTargets(currentResources.items) = {}

\* C16 as amended: a snapshot that a bulk query populated holds no TARGET without
\* a group reference, and the only call after which the snapshot holds more such
\* TARGETs than before is a successful createResource of a TARGET.
C16_UngroupedTargetOnlyCreated ==
    /\ (~last.pre.defined /\ currentResources.defined) =>
           UngroupedTargets(currentResources.items) = {}
    /\ Cardinality(UngroupedTargets(currentResources.items))
          > Cardinality(UngroupedTargets(last.pre.items)) =>
           /\ last.op = "createResource"
           /\ last.in.type = "TARGET"
           /\ last.result = "ok"

\* a bulk query populated the snapshot with a TARGET of a group and one other
\* resource
C16_Witness ==
    /\ last.op = "fetchResources" /\ ~last.pre.defined /\ last.result = "ok"
    /\ Len(currentResources.items) = 2
    /\ \E i \in 1..2 :
          /\ currentResources.items[i].resourceType = "TARGET"
          /\ currentResources.items[i].resourceGroup = "g2"

\* C18: every command that carries a resource name, a group name or arguments of
\* the caller is issued as an argument vector, none as a shell string.
C18_ArgumentVectors ==
    \A i \in 1..Len(last.cmds) : ~last.cmds[i].shell

---------------------------------------------------------------------------
(* The insertion-point model: addResourceToGroup on any populated snapshot *)

RankedTypes == {"VIP", "LVM", "TARGET", "LUN", "PORTBLOCK_OFF"}

\* the name of the i-th cached resource: m, mm, mmm, ...
MemberName(i) == [k \in 1..i |-> "m"]

NewName == <<"n">>

InitAdd ==
    /\ \E n \in 0..MaxGroup :
         \E ty \in [1..n -> RankedTypes], grp \in [1..n -> GroupNames] :
            currentResources =
                Defined([i \in 1..n |-> PCSResource(MemberName(i), ty[i], grp[i])])
    /\ last = NoCall
    /\ prev = Summary(NoCall)
    /\ call = Idle
    /\ statusText = <<>>
    /\ pcsGroups = <<>>
    /\ classified = NotClassified
    /\ scst = NoScst

\* one call, with an object of the snapshot (i > 0) or with a new object
NextAdd ==
    /\ last.op = "none"
    /\ \E i \in 0..MaxGroup, t \in RankedTypes, g \in GroupNames :
         \E n \in (IF i = 0 THEN {NewName} ELSE {MemberName(i)}) :
            addResourceToGroup(i, n, t, g) /\ UNCHANGED pcsGroups

SpecAdd == InitAdd /\ [][NextAdd]_vars

\* the indices of the members of the group in the snapshot the call started with
PreMembers == {i \in 1..Len(last.pre.items) : last.pre.items[i].resourceGroup = last.in.group}

PreRank(i) == orderInGroup(last.pre.items[i].resourceType)

AddCommand == last.cmds[Len(last.cmds)]

\* C10: the group add command carries no position exactly when every member of the
\* group has a rank below the added resource's; otherwise it names the member of
\* least rank among those of equal or higher rank, the earliest cached of that rank.
C10_InsertionPoint ==
    (last.op = "addResourceToGroup" /\ last.cmds # <<>>
     /\ AddCommand.kind = "resource group add") =>
        LET r == orderInGroup(last.in.type)
        IN  /\ AddCommand.before = NoName <=> \A i \in PreMembers : PreRank(i) < r
            /\ AddCommand.before # NoName =>
                 \E i \in PreMembers :
                    /\ last.pre.items[i].name = AddCommand.before
                    /\ PreRank(i) >= r
                    /\ \A j \in PreMembers :
                         PreRank(j) >= r =>
                            \/ PreRank(j) > PreRank(i)
                            \/ (PreRank(j) = PreRank(i) /\ j >= i)

\* ranks [1,2,4] in the group and a new resource of rank 2: before the rank-2 member
C10_Witness ==
    /\ last.op = "addResourceToGroup" /\ last.in.alias = 0
    /\ last.pre.items = <<PCSResource(MemberName(1), "LUN", "g1"),
                          PCSResource(MemberName(2), "VIP", "g1"),
                          PCSResource(MemberName(3), "LVM", "g1")>>
    /\ last.in.group = "g1" /\ last.in.type = "LVM"
    /\ AddCommand.before = MemberName(3)
    /\ last.result = "ok"

---------------------------------------------------------------------------
(* Texts the cluster tools print, as lines of whitespace-separated tokens *)

\* the i flag of the regular expressions, on the tokens they name
Lower(tok) ==
    CASE tok \in {"Started", "started", "STARTED"} -> "started"
      [] tok \in {"Resource", "resource"} -> "resource"
      [] tok \in {"Group:", "group:"} -> "group:"
      [] tok \in {"is", "IS"} -> "is"
      [] tok \in {"running", "RUNNING"} -> "running"
      [] tok \in {"on:", "ON:"} -> "on:"
      [] tok \in {"g1", "G1"} -> "g1"
      [] OTHER -> tok

\* out.match(/is running on:\s+([^\s\n]+)/i): the token after the first
\* "is running on:", NoNode when there is none
LocateNode(out) ==
    LET hits == {i \in 1..(Len(out) - 3) :
                    /\ Lower(out[i]) = "is"
                    /\ Lower(out[i + 1]) = "running"
                    /\ Lower(out[i + 2]) = "on:"}
    IN  IF hits = {} THEN NoNode
        ELSE out[(CHOOSE i \in hits : \A j \in hits : i <= j) + 3]

\* the header regular expression matches at the start of this line
IsHeader(line, groupId) ==
    /\ Len(line) >= 5
    /\ line[1] = "*"
    /\ Lower(line[2]) = "resource"
    /\ Lower(line[3]) = "group:"
    /\ Lower(line[4]) = Lower(groupId)
    /\ line[5] = ":"

IsAnyHeader(line, groupId) ==
    /\ Len(line) >= 5
    /\ line[1] = "*"
    /\ Lower(line[2]) = "resource"
    /\ Lower(line[3]) = "group:"
    /\ line[5] = ":"

RECURSIVE Flatten(_)
Flatten(lines) == IF lines = <<>> THEN <<>> ELSE Head(lines) \o Flatten(Tail(lines))

\* the capture of the second regular expression when its match starts on line k of
\* tail: the token after the first Started on that line that a token follows, on
\* that line or, across the line break, on a later one; NoNode when line k does
\* not start with * or holds no such Started
StartedOnLine(tail, k) ==
    LET line == tail[k]
        after == Flatten(SubSeq(tail, k + 1, Len(tail)))
        rest == line \o after
        hits == {j \in 2..Len(line) : Lower(line[j]) = "started" /\ j < Len(rest)}
    IN  IF line = <<>> \/ line[1] # "*" \/ hits = {} THEN NoNode
        ELSE rest[(CHOOSE j \in hits : \A h \in hits : j <= h) + 1]

\* the parse with a header pattern that leaves the group's name out
parseAnyGroupFromStatusText(text, groupId) ==
    LET hdrs == {i \in 1..Len(text) : IsAnyHeader(text[i], groupId)}
    IN  IF hdrs = {} THEN NoNode
        ELSE LET h == CHOOSE i \in hdrs : \A j \in hdrs : i <= j
                 tail == <<SubSeq(text[h], 6, Len(text[h]))>>
                             \o SubSeq(text, h + 1, Len(text))
                 found == {k \in 1..Len(tail) : StartedOnLine(tail, k) # NoNode}
             IN  IF found = {} THEN NoNode
                 ELSE StartedOnLine(tail, CHOOSE k \in found : \A j \in found : k <= j)

\* parseGroupFromStatusText(text, groupId)
parseGroupFromStatusText(text, groupId) ==
    LET hdrs == {i \in 1..Len(text) : IsHeader(text[i], groupId)}
    IN  IF hdrs = {} THEN NoNode
        ELSE LET h == CHOOSE i \in hdrs : \A j \in hdrs : i <= j
                 tail == <<SubSeq(text[h], 6, Len(text[h]))>>
                             \o SubSeq(text, h + 1, Len(text))
                 found == {k \in 1..Len(tail) : StartedOnLine(tail, k) # NoNode}
             IN  IF found = {} THEN NoNode
                 ELSE StartedOnLine(tail, CHOOSE k \in found : \A j \in found : k <= j)

---------------------------------------------------------------------------
(* getGroupActiveNode: the strategies *)

VipMarker == <<"_", "V", "I", "P", "_">>
TargetMarker == <<"_", "T", "A", "R", "G", "E", "T", "_">>

\* the members that reported a node, in query order
Reporting(perMember) ==
    SelectSeqBy(perMember, {i \in 1..Len(perMember) : perMember[i].node # NoNode})

\* Array.from(new Set(perMember.map(x => x.node).filter(Boolean)))
Distinct(perMember) == {perMember[i].node : i \in 1..Len(perMember)} \ {NoNode}

\* perMember.find(x => x.id.includes(marker) && x.node)?.node
PreferredNode(perMember, marker) ==
    LET hits == {i \in 1..Len(perMember) :
                    Includes(perMember[i].id, marker) /\ perMember[i].node # NoNode}
    IN  IF hits = {} THEN NoNode
        ELSE perMember[CHOOSE i \in hits : \A j \in hits : i <= j].node

\* nodeCounts.set(node, (nodeCounts.get(node) ?? 0) + 1) on a Map kept as the
\* sequence of its entries in insertion order
CountNode(nodeCounts, node) ==
    IF node = NoNode THEN nodeCounts
    ELSE IF \E i \in 1..Len(nodeCounts) : nodeCounts[i].node = node
    THEN [i \in 1..Len(nodeCounts) |->
            IF nodeCounts[i].node = node
            THEN [nodeCounts[i] EXCEPT !.count = @ + 1] ELSE nodeCounts[i]]
    ELSE Append(nodeCounts, [node |-> node, count |-> 1])

\* the loop over nodeCounts with c >= bestCount: the last of the highest counts
MajorityLast(nodeCounts) ==
    LET best == {i \in 1..Len(nodeCounts) :
                    /\ \A j \in 1..Len(nodeCounts) : nodeCounts[j].count <= nodeCounts[i].count
                    /\ \A j \in (i + 1)..Len(nodeCounts) : nodeCounts[j].count < nodeCounts[i].count}
    IN  nodeCounts[CHOOSE i \in best : TRUE].node

\* the loop over nodeCounts with c > bestCount: the first of the highest counts
Majority(nodeCounts) ==
    LET best == {i \in 1..Len(nodeCounts) :
                    /\ \A j \in 1..Len(nodeCounts) : nodeCounts[j].count <= nodeCounts[i].count
                    /\ \A j \in 1..(i - 1) : nodeCounts[j].count < nodeCounts[i].count}
    IN  nodeCounts[CHOOSE i \in best : TRUE].node

\* the strategies with the majority vote ahead of the role preference
chosenMajorityFirst(perMember, nodeCounts) ==
    IF Cardinality(Distinct(perMember)) = 1
    THEN CHOOSE n \in Distinct(perMember) : TRUE
    ELSE IF Len(nodeCounts) > 0 THEN Majority(nodeCounts)
    ELSE NoNode

\* `chosen` after unanimity, role preference and majority vote
chosenFromMembers(perMember, nodeCounts) ==
    IF Cardinality(Distinct(perMember)) = 1
    THEN CHOOSE n \in Distinct(perMember) : TRUE
    ELSE IF PreferredNode(perMember, VipMarker) # NoNode
    THEN PreferredNode(perMember, VipMarker)
    ELSE IF PreferredNode(perMember, TargetMarker) # NoNode
    THEN PreferredNode(perMember, TargetMarker)
    ELSE IF Len(nodeCounts) > 0 THEN Majority(nodeCounts)
    ELSE NoNode

StatusAlways(chosen) == TRUE

\* if (!chosen) before the status query
NeedsStatus(chosen) == chosen = NoNode

\* the per-member part of the diagnostic with the members not running left out
DiagOfReporting(members, perMember) ==
    [members |-> members,
     perMember |-> [i \in 1..Len(Reporting(perMember)) |->
                       [id |-> Reporting(perMember)[i].id,
                        node |-> Reporting(perMember)[i].node]]]

\* diag: the member names, and each queried member with its node or NOT RUNNING
Diag(members, perMember) ==
    [members |-> members,
     perMember |-> [i \in 1..Len(perMember) |->
                       [id |-> perMember[i].id,
                        node |-> IF perMember[i].node = NoNode
                                 THEN "NOT RUNNING" ELSE perMember[i].node]]]

NoDiag == [members |-> <<>>, perMember |-> <<>>]

---------------------------------------------------------------------------
(* getGroupActiveNode: the call, one remote command at a time *)

Nodes == {"n1", "n2"}

\* what `crm_resource --locate` prints
LocateOutputs ==
    {<<"resource", "is", "running", "on:", n>> : n \in Nodes}
    \cup {<<"resource", "is", "NOT", "running">>}

\* lines of `pcs status`; a line starting with * holds at least one more token
LinePool ==
    {<<"*", "Resource", "Group:", "g1", ":">>,
     <<"*", "Resource", "Group:", "g2", ":">>,
     <<"*", "m", "Started", "n1">>,
     <<"*", "m", "started">>,
     <<"m", "Started", "n2">>}

StatusTexts == UNION {[1..n -> LinePool] : n \in 0..MaxLines}

LocateCommand(rid, ok) == Cmd("locate", FALSE, rid, NoGroup, NoName, ok)
StatusCommand(ok) == Cmd("status", FALSE, NoName, NoGroup, NoName, ok)

\* the call ends
Done(c, result, chosen, diag) ==
    [c EXCEPT !.pc = "done", !.result = result, !.chosen = chosen, !.diag = diag,
              !.outstanding = <<>>]

\* from the entry to the first location query: fetchResources, the group check
getGroupActiveNode(group) ==
    /\ call.pc = "idle"
    /\ \E o \in FetchOutcomes(currentResources) :
         LET c == [call EXCEPT !.group = group, !.pre = currentResources,
                               !.cmds = o.cmds]
             members == MembersOf(o.ret, group)
         IN  /\ currentResources' = o.cache
             /\ call' =
                  IF o.result # "ok" THEN Done(c, o.result, NoNode, NoDiag)
                  ELSE IF members = <<>>
                  THEN Done(c, "not found in PCS configuration", NoNode, NoDiag)
                  ELSE [c EXCEPT !.pc = "locate",
                                 !.members = [i \in 1..Len(members) |-> members[i].name]]
    /\ UNCHANGED <<last, prev, statusText, pcsGroups, classified, scst>>

\* the location queries of all the members not queried yet, issued together
locateAll(members, perMember) ==
    [i \in 1..(Len(members) - Len(perMember)) |->
        LocateCommand(members[Len(perMember) + i], TRUE)]

\* yield* locate(r.name) in the loop over the members: the query of the next one
locateNext(members, perMember) ==
    <<LocateCommand(members[Len(perMember) + 1], TRUE)>>

\* locate(r.name) is called for the next member
LocateIssue ==
    /\ call.pc = "locate"
    /\ call' = [call EXCEPT !.pc = "locating",
                  !.outstanding = locateNext(call.members, call.perMember)]
    /\ UNCHANGED <<currentResources, last, prev, statusText, pcsGroups, classified, scst>>

\* a failed location query recorded as a member without a node: the loop goes on
locateFailureSkipped(c, rid) ==
    LET per == Append(c.perMember, [id |-> rid, node |-> NoNode])
    IN  [c EXCEPT !.cmds = Append(@, LocateCommand(rid, FALSE)),
                  !.outstanding = <<>>,
                  !.perMember = per,
                  !.pc = IF Len(per) = Len(c.members) THEN "decide" ELSE "locate"]

\* yield* locate(r.name).safeUnwrap() on a query that failed: mapErr names the
\* member and the whole resolution returns that failure
locateFailed(c, rid) ==
    Done([c EXCEPT !.cmds = Append(@, LocateCommand(rid, FALSE))],
         "Failed to locate", NoNode, NoDiag)

\* the location query comes back: it failed, or it printed something
LocateReturn ==
    /\ call.pc = "locating"
    /\ LET rid == call.members[Len(call.perMember) + 1]
       IN  \/ call' = locateFailed(call, rid)
           \/ \E out \in LocateOutputs :
                LET node == LocateNode(out)
                    per == Append(call.perMember, [id |-> rid, node |-> node])
                IN  call' = [call EXCEPT
                        !.cmds = Append(@, LocateCommand(rid, TRUE)),
                        !.outstanding = <<>>,
                        !.perMember = per,
                        !.nodeCounts = CountNode(@, node),
                        !.pc = IF Len(per) = Len(call.members) THEN "decide" ELSE "locate"]
    /\ UNCHANGED <<currentResources, last, prev, statusText, pcsGroups, classified, scst>>

\* after the loop: unanimity, role preference, majority
Decide ==
    /\ call.pc = "decide"
    /\ LET chosen == chosenFromMembers(call.perMember, call.nodeCounts)
       IN  call' = IF NeedsStatus(chosen)
                   THEN [call EXCEPT !.pc = "status", !.chosen = chosen,
                                     !.outstanding = <<StatusCommand(TRUE)>>]
                   ELSE Done(call, "ok", chosen, NoDiag)
    /\ UNCHANGED <<currentResources, last, prev, statusText, pcsGroups, classified, scst>>

\* `pcs status` comes back: it failed, or it printed a text
StatusReturn ==
    /\ call.pc = "status"
    /\ \/ /\ call' = Done([call EXCEPT !.cmds = Append(@, StatusCommand(FALSE))],
                          "Failed to query pcs status", NoNode, NoDiag)
          /\ UNCHANGED statusText
       \/ \E text \in StatusTexts :
            LET fromText == parseGroupFromStatusText(text, call.group)
                chosen == IF fromText # NoNode THEN fromText ELSE call.chosen
                c == [call EXCEPT !.cmds = Append(@, StatusCommand(TRUE))]
            IN  /\ statusText' = text
                /\ call' = IF chosen = NoNode
                           THEN Done(c, "appears inactive", NoNode,
                                     Diag(call.members, call.perMember))
                           ELSE Done(c, "ok", chosen, NoDiag)
    /\ UNCHANGED <<currentResources, last, prev, pcsGroups, classified, scst>>

---------------------------------------------------------------------------
(* The active-node model: one getGroupActiveNode call on any snapshot *)

\* what a member's name holds: no marker, the VIP marker, the TARGET marker, both
NameClasses ==
    {<<"V", "I", "P">>, VipMarker, TargetMarker,
     <<"_", "T", "A", "R", "G", "E", "T", "_", "V", "I", "P", "_">>}

InitNode ==
    /\ \/ currentResources = Undefined
       \/ \E n \in 0..MaxMembers :
            \E cl \in [1..n -> NameClasses], grp \in [1..n -> GroupNames] :
               \* the names of the resources of the other group are not looked at
               /\ \A i \in 1..n : grp[i] # "g1" => cl[i] = <<"V", "I", "P">>
               /\ currentResources =
                     Defined([i \in 1..n |->
                                 PCSResource(cl[i] \o MemberName(i), "VIP", grp[i])])
    /\ last = NoCall
    /\ prev = Summary(NoCall)
    /\ call = Idle
    /\ statusText = <<>>
    /\ pcsGroups = <<>>
    /\ classified = NotClassified
    /\ scst = NoScst

NextNode ==
    \/ getGroupActiveNode("g1")
    \/ LocateIssue
    \/ LocateReturn
    \/ Decide
    \/ StatusReturn

SpecNode == InitNode /\ [][NextNode]_vars

---------------------------------------------------------------------------
(* Properties of the active-node model *)

\* every member's location query has come back with an answer
AllQueried == call.members # <<>> /\ Len(call.perMember) = Len(call.members)

ReportedNodes == {call.perMember[i].node : i \in 1..Len(call.perMember)} \ {NoNode}

ReportersWith(marker) ==
    {i \in 1..Len(call.perMember) :
        call.perMember[i].node # NoNode /\ Includes(call.perMember[i].id, marker)}

Votes(n) == Cardinality({i \in 1..Len(call.perMember) : call.perMember[i].node = n})

FirstVote(n) ==
    CHOOSE i \in 1..Len(call.perMember) :
        /\ call.perMember[i].node = n
        /\ \A j \in 1..(i - 1) : call.perMember[j].node # n

StatusIssued ==
    \/ \E i \in 1..Len(call.cmds) : call.cmds[i].kind = "status"
    \/ \E i \in 1..Len(call.outstanding) : call.outstanding[i].kind = "status"

StatusAnswered ==
    \E i \in 1..Len(call.cmds) : call.cmds[i].kind = "status" /\ call.cmds[i].ok

\* C5: when all the members that reported a node reported the same one, the call
\* returns that node and issues no status query, whatever the members are named.
C5_UnanimityWins ==
    (AllQueried /\ Cardinality(ReportedNodes) = 1) =>
        /\ ~StatusIssued
        /\ call.pc = "done" => (call.result = "ok" /\ call.chosen \in ReportedNodes)

\* a TARGET-marked member reports the node, the VIP-marked members are not running
C5_Witness ==
    /\ call.pc = "done" /\ Len(call.perMember) = 3
    /\ ReportedNodes = {"n2"}
    /\ ReportersWith(VipMarker) = {}
    /\ \E i \in 1..3 : /\ Includes(call.perMember[i].id, VipMarker)
                       /\ call.perMember[i].node = NoNode
    /\ call.chosen = "n2"

\* C6: when the reporting members disagree, the call returns the node of the first
\* VIP-marked member that reported; without one, the node of the first
\* TARGET-marked member that reported; without either, a node of the most votes.
C6_RolePreference ==
    (call.pc = "done" /\ AllQueried /\ Cardinality(ReportedNodes) >= 2) =>
        /\ call.result = "ok"
        /\ ReportersWith(VipMarker) # {} =>
              \E i \in ReportersWith(VipMarker) :
                 /\ \A j \in ReportersWith(VipMarker) : i <= j
                 /\ call.chosen = call.perMember[i].node
        /\ (ReportersWith(VipMarker) = {} /\ ReportersWith(TargetMarker) # {}) =>
              \E i \in ReportersWith(TargetMarker) :
                 /\ \A j \in ReportersWith(TargetMarker) : i <= j
                 /\ call.chosen = call.perMember[i].node
        /\ (ReportersWith(VipMarker) = {} /\ ReportersWith(TargetMarker) = {}) =>
              /\ call.chosen \in ReportedNodes
              /\ \A m \in ReportedNodes : Votes(m) <= Votes(call.chosen)

\* the VIP-marked member reports n2, the two others n1
C6_Witness ==
    /\ call.pc = "done" /\ Len(call.perMember) = 3
    /\ Votes("n1") = 2 /\ Votes("n2") = 1
    /\ \E i \in ReportersWith(VipMarker) : call.perMember[i].node = "n2"
    /\ \E i \in ReportersWith(TargetMarker) : call.perMember[i].node = "n1"
    /\ call.chosen = "n2"

\* C7: when the reporting members disagree and none of them is VIP- or
\* TARGET-marked, the call returns the node of the most votes, and of the nodes
\* that tie for the most the one a member reported first.
C7_MajorityVote ==
    (/\ call.pc = "done" /\ AllQueried /\ Cardinality(ReportedNodes) >= 2
     /\ ReportersWith(VipMarker) = {} /\ ReportersWith(TargetMarker) = {}) =>
        /\ call.result = "ok"
        /\ call.chosen \in ReportedNodes
        /\ \A m \in ReportedNodes \ {call.chosen} :
              \/ Votes(m) < Votes(call.chosen)
              \/ (Votes(m) = Votes(call.chosen) /\ FirstVote(call.chosen) < FirstVote(m))

\* a tie of one vote each: the node reported first wins
C7_Witness ==
    /\ call.pc = "done" /\ Len(call.perMember) = 3
    /\ call.perMember[1].node = "n2"
    /\ call.perMember[2].node = NoNode
    /\ call.perMember[3].node = "n1"
    /\ ReportersWith(VipMarker) = {} /\ ReportersWith(TargetMarker) = {}
    /\ call.chosen = "n2"

\* the lines of the status text that are the header of the call's group
HeaderLines ==
    {h \in 1..Len(statusText) :
        /\ Len(statusText[h]) >= 5
        /\ statusText[h][1] = "*"
        /\ Lower(statusText[h][2]) = "resource"
        /\ Lower(statusText[h][3]) = "group:"
        /\ Lower(statusText[h][4]) = Lower(call.group)
        /\ statusText[h][5] = ":"}

\* a token follows position j of line k, on the line or on a later line
TokenFollows(k, j) ==
    \/ j < Len(statusText[k])
    \/ \E k2 \in (k + 1)..Len(statusText) : statusText[k2] # <<>>

\* line k starts with * and holds a Started that a token follows
MarkerAt(k, j) ==
    /\ statusText[k] # <<>> /\ statusText[k][1] = "*"
    /\ j \in 2..Len(statusText[k])
    /\ Lower(statusText[k][j]) = "started"
    /\ TokenFollows(k, j)

TokenAfter(k, j) ==
    IF j < Len(statusText[k]) THEN statusText[k][j + 1]
    ELSE LET k2 == CHOOSE x \in (k + 1)..Len(statusText) :
                       /\ statusText[x] # <<>>
                       /\ \A y \in (k + 1)..(x - 1) : statusText[y] = <<>>
         IN  statusText[k2][1]

\* the marker positions <<k, j>> after the first header of the group
MarkersAfterHeader ==
    IF HeaderLines = {} THEN {}
    ELSE LET h == CHOOSE x \in HeaderLines : \A y \in HeaderLines : x <= y
         IN  UNION {{<<k, j>> : j \in {x \in 2..Len(statusText[k]) : MarkerAt(k, x)}} :
                        k \in (h + 1)..Len(statusText)}

\* the token after the first marker after the group's header, NoNode without one
ExpectedFromStatus ==
    IF MarkersAfterHeader = {} THEN NoNode
    ELSE LET p == CHOOSE x \in MarkersAfterHeader :
                      \A y \in MarkersAfterHeader :
                          x[1] < y[1] \/ (x[1] = y[1] /\ x[2] <= y[2])
         IN  TokenAfter(p[1], p[2])

\* C8: the status query is issued exactly when every member's location query has
\* come back and none reported a node; the call then returns the token after the
\* Started marker of the first line after the group's header that holds one.
C8_StatusFallback ==
    /\ StatusIssued => (AllQueried /\ ReportedNodes = {})
    /\ (call.pc \in {"status", "done"} /\ AllQueried /\ ReportedNodes = {}) => StatusIssued
    /\ (call.pc = "done" /\ StatusAnswered) =>
          IF ExpectedFromStatus # NoNode
          THEN call.result = "ok" /\ call.chosen = ExpectedFromStatus
          ELSE call.result # "ok"

\* the first line after the header has no *, the second is a member line
C8_Witness ==
    /\ call.pc = "done" /\ StatusAnswered
    /\ Len(call.members) = 2
    /\ statusText = << <<"*", "Resource", "Group:", "g1", ":">>,
                       <<"m", "Started", "n2">>,
                       <<"*", "m", "Started", "n1">> >>
    /\ call.result = "ok" /\ call.chosen = "n1"

\* C9: when no member reported a node and the status text gives none for the
\* group, the call fails as inactive and its diagnostic names every member, in
\* order, each with NOT RUNNING.
C9_InactiveDiagnostic ==
    (/\ call.pc = "done" /\ AllQueried /\ ReportedNodes = {}
     /\ StatusAnswered /\ ExpectedFromStatus = NoNode) =>
        /\ call.result = "appears inactive"
        /\ call.diag.members = call.members
        /\ Len(call.diag.perMember) = Len(call.members)
        /\ \A i \in 1..Len(call.members) :
              call.diag.perMember[i] = [id |-> call.members[i], node |-> "NOT RUNNING"]

\* three members, and a status text whose only Started line precedes the header
C9_Witness ==
    /\ call.pc = "done" /\ call.result = "appears inactive"
    /\ Len(call.members) = 3
    /\ statusText = << <<"*", "m", "Started", "n1">>,
                       <<"*", "Resource", "Group:", "g1", ":">> >>
    /\ Len(call.diag.perMember) = 3

\* C20: within one getGroupActiveNode call at most one command is outstanding, a
\* location query is issued only when the queries of the members before it have
\* come back, and no strategy decides, and no status query is issued, before the
\* location query of every member has come back.
C20_OneCommandAtATime ==
    /\ Len(call.outstanding) <= 1
    /\ \A i \in 1..Len(call.outstanding) :
          \/ /\ call.outstanding[i].kind = "locate"
             /\ Len(call.perMember) < Len(call.members)
             /\ call.outstanding[i].res = call.members[Len(call.perMember) + 1]
             /\ Len(call.cmds) = Len(call.perMember) + (IF call.pre.defined THEN 0 ELSE 1)
          \/ /\ call.outstanding[i].kind = "status"
             /\ AllQueried
    /\ (call.pc \in {"decide", "status"} \/ call.chosen # NoNode \/ StatusIssued) =>
          AllQueried
    /\ (call.pc = "done" /\ call.result \in {"ok", "appears inactive"}) => AllQueried

\* the second member's query is outstanding, the first has answered, the third waits
C20_Witness ==
    /\ call.pc = "locating"
    /\ Len(call.members) = 3 /\ Len(call.perMember) = 1
    /\ call.outstanding = <<LocateCommand(call.members[2], TRUE)>>
    /\ call.perMember[1].node = "n1"

\* the members whose location query came back without a node ("NOT running")
NotRunningMembers == {i \in 1..Len(call.perMember) : call.perMember[i].node = NoNode}

\* the location queries of the call that failed
FailedLocates == {i \in 1..Len(call.cmds) : call.cmds[i].kind = "locate" /\ ~call.cmds[i].ok}

\* C21: in getGroupActiveNode a member that reports "not running" is recorded as
\* a member without a node and the resolution goes on: the call ends inside the
\* loop, or with the failure of a location query, only when a location query
\* failed, and once a member reported a node and every query came back the call
\* does not fail for the members that are not running.  A location query that
\* failed ends the resolution with that failure and without a node, whatever the
\* members queried before it reported.
C21_NotRunningVersusFailure ==
    /\ \A i \in NotRunningMembers :
          /\ call.cmds[i + (IF call.pre.defined THEN 0 ELSE 1)] =
                 LocateCommand(call.perMember[i].id, TRUE)
          /\ (call.pc = "done" /\ FailedLocates = {}) => AllQueried
          /\ (call.pc = "done" /\ AllQueried /\ ReportedNodes # {}) =>
                 call.result = "ok" /\ call.chosen \in ReportedNodes
    /\ call.result = "Failed to locate" <=> FailedLocates # {}
    /\ FailedLocates # {} =>
          /\ call.pc = "done" /\ call.chosen = NoNode
          /\ FailedLocates = {Len(call.cmds)}
          /\ call.cmds[Len(call.cmds)].res = call.members[Len(call.perMember) + 1]
          /\ Len(call.perMember) < Len(call.members)

\* the first member is not running, the second reported n2, the third's query failed
C21_Witness ==
    /\ call.pc = "done" /\ call.result = "Failed to locate"
    /\ Len(call.members) = 3 /\ Len(call.perMember) = 2
    /\ call.perMember[1].node = NoNode /\ call.perMember[2].node = "n2"
    /\ FailedLocates # {}

---------------------------------------------------------------------------
(* The group-order model: resources are created and added to one group that  *)
(* starts empty; every call succeeds and the cluster manager places the      *)
(* resource before the member the command names, or at the end.              *)

\* most resources created in the group-order model
MaxCreated == 3

GroupTypes == {"TARGET", "LUN", "PORTBLOCK_OFF"}

\* the member_ids of a group of the cluster manager, <<>> when it has no such group
MemberIds(groups, group) ==
    IF \E i \in 1..Len(groups) : groups[i].id = group
    THEN groups[CHOOSE i \in 1..Len(groups) : groups[i].id = group].member_ids
    ELSE <<>>

\* ids with id placed before the member `before`, at the end when before is NoName
PlaceBefore(ids, id, before) ==
    IF before = NoName \/ ~\E k \in 1..Len(ids) : ids[k] = before
    THEN Append(ids, id)
    ELSE LET k == CHOOSE x \in 1..Len(ids) : ids[x] = before
         IN  SubSeq(ids, 1, k - 1) \o <<id>> \o SubSeq(ids, k, Len(ids))

\* the cluster manager's groups after `pcs resource group add grp [--before b] res`
GroupAdd(groups, cmd) ==
    LET placed == PlaceBefore(MemberIds(groups, cmd.grp), cmd.res, cmd.before)
    IN  IF \E i \in 1..Len(groups) : groups[i].id = cmd.grp
        THEN [i \in 1..Len(groups) |->
                 IF groups[i].id = cmd.grp
                 THEN [groups[i] EXCEPT !.member_ids = placed] ELSE groups[i]]
        ELSE Append(groups, [id |-> cmd.grp, member_ids |-> placed])

\* a snapshot populated by fetchResources from a cluster manager without resources
InitGroup ==
    /\ currentResources = Defined(<<>>)
    /\ last = NoCall
    /\ prev = Summary(NoCall)
    /\ call = Idle
    /\ statusText = <<>>
    /\ pcsGroups = <<>>
    /\ classified = NotClassified
    /\ scst = NoScst

\* createResource, or addResourceToGroup with a resource createResource returned
\* that is in no group yet; both succeed
NextGroup ==
    \/ \E t \in GroupTypes :
          /\ Len(currentResources.items) < MaxCreated
          /\ createResource(MemberName(Len(currentResources.items) + 1), <<"x">>, t)
          /\ last'.result = "ok"
    \/ \E i \in 1..MaxCreated :
          /\ i <= Len(currentResources.items)
          /\ currentResources.items[i].resourceGroup = NoGroup
          /\ addResourceToGroup(i, currentResources.items[i].name,
                                currentResources.items[i].resourceType, "g1")
          /\ last'.result = "ok"
          /\ pcsGroups' = GroupAdd(pcsGroups, last'.cmds[Len(last'.cmds)])

SpecGroup == InitGroup /\ [][NextGroup]_vars

\* the rank of the cached resource of that name
RankOfId(id) ==
    LET k == CHOOSE i \in 1..Len(currentResources.items) : currentResources.items[i].name = id
    IN  orderInGroup(currentResources.items[k].resourceType)

\* C11: after any sequence of successful createResource and addResourceToGroup
\* calls on a group that started empty, the members of the group in the cluster
\* manager are in non-decreasing order of orderInGroup.
C11_GroupOrder ==
    LET ids == MemberIds(pcsGroups, "g1")
    IN  \A i \in 1..Len(ids) : \A j \in (i + 1)..Len(ids) :
            RankOfId(ids[i]) <= RankOfId(ids[j])

---------------------------------------------------------------------------
(* getAnchorsForGroup *)

\* most cached resources, and most member ids of a group, in the anchor model
MaxAnchors == 3

NoMembersError == "not found or has no members"
NoGroupError == "not found in PCS configuration"
NoTargetError == "No TARGET primitive found in group"
NoPortBlockOffError == "No PORTBLOCK_OFF primitive found in group"
ConfigError == "Unable to get PCS configuration"

\* the fresh `pcs resource config --output-format json` of getAnchorsForGroup
ConfigQuery(ok) == Cmd("resource config", FALSE, NoName, NoGroup, NoName, ok)

\* byId.get(rid)?.resourceType: new Map(members.map(r => [r.name, r])) keeps the
\* last member of a name
byIdType(members, rid) ==
    LET hits == {i \in 1..Len(members) : members[i].name = rid}
    IN  IF hits = {} THEN "undefined"
        ELSE members[CHOOSE i \in hits : \A j \in hits : j <= i].resourceType

\* the first member of the snapshot, in snapshot order, of that type
anchorInSnapshotOrder(member_ids, members, type) ==
    LET hits == {i \in 1..Len(members) :
                    /\ members[i].resourceType = type
                    /\ \E k \in 1..Len(member_ids) : member_ids[k] = members[i].name}
    IN  IF hits = {} THEN NoName
        ELSE members[CHOOSE i \in hits : \A j \in hits : i <= j].name

\* the loop over grp.member_ids for one type: the first id whose snapshot member
\* has that type, NoName when there is none
anchorOfType(member_ids, members, type) ==
    LET hits == {k \in 1..Len(member_ids) : byIdType(members, member_ids[k]) = type}
    IN  IF hits = {} THEN NoName
        ELSE member_ids[CHOOSE k \in hits : \A j \in hits : k <= j]

\* the outcome without the check of portBlockOffId
anchorsUnchecked(group, members, groups) ==
    LET ids == MemberIds(groups, group)
        targetId == anchorOfType(ids, members, "TARGET")
        portBlockOffId == anchorOfType(ids, members, "PORTBLOCK_OFF")
    IN  IF ~\E i \in 1..Len(groups) : groups[i].id = group
        THEN [result |-> NoGroupError, ret |-> <<>>]
        ELSE IF targetId = NoName THEN [result |-> NoTargetError, ret |-> <<>>]
        ELSE [result |-> "ok", ret |-> <<targetId, portBlockOffId>>]

\* from cfg to the end of getAnchorsForGroup: the group of the configuration,
\* the two anchors, the failures
anchorsFromConfig(group, members, groups) ==
    LET ids == MemberIds(groups, group)
        targetId == anchorOfType(ids, members, "TARGET")
        portBlockOffId == anchorOfType(ids, members, "PORTBLOCK_OFF")
    IN  IF ~\E i \in 1..Len(groups) : groups[i].id = group
        THEN [result |-> NoGroupError, ret |-> <<>>]
        ELSE IF targetId = NoName THEN [result |-> NoTargetError, ret |-> <<>>]
        ELSE IF portBlockOffId = NoName THEN [result |-> NoPortBlockOffError, ret |-> <<>>]
        ELSE [result |-> "ok", ret |-> <<targetId, portBlockOffId>>]

\* what the fresh configuration query can answer about groups
AnchorGroups ==
    {<<>>}
    \cup {<<[id |-> g, member_ids |-> ids]>> :
             g \in GroupNames,
             ids \in UNION {DistinctSeqs({MemberName(i) : i \in 1..MaxAnchors}, n) :
                               n \in 0..MaxAnchors}}

getAnchorsForGroup(group) ==
    LET in == In(NoName, group, <<>>, "undefined", 0)
        op == "getAnchorsForGroup"
    IN  /\ \E o \in FetchOutcomes(currentResources) :
              /\ currentResources' = o.cache
              /\ IF o.result # "ok"
                 THEN /\ Finish(Call(op, in, currentResources, o.result, o.cmds, <<>>))
                      /\ UNCHANGED pcsGroups
                 ELSE IF MembersOf(o.ret, group) = <<>>
                 THEN /\ Finish(Failed(op, in, currentResources, NoMembersError,
                                       o.cmds, group))
                      /\ UNCHANGED pcsGroups
                 ELSE \/ /\ Finish(Call(op, in, currentResources, ConfigError,
                                        Append(o.cmds, ConfigQuery(FALSE)), <<>>))
                         /\ UNCHANGED pcsGroups
                      \/ \E groups \in AnchorGroups :
                            LET a == anchorsFromConfig(group, MembersOf(o.ret, group), groups)
                                cmds == Append(o.cmds, ConfigQuery(TRUE))
                            IN  /\ pcsGroups' = groups
                                /\ Finish(IF a.result = "ok"
                                          THEN Call(op, in, currentResources, "ok", cmds, a.ret)
                                          ELSE Failed(op, in, currentResources, a.result,
                                                      cmds, group))
        /\ UNCHANGED <<call, statusText, classified, scst>>

---------------------------------------------------------------------------
(* The anchor model: one getAnchorsForGroup call on any snapshot, the cluster *)
(* manager answering the fresh query with any groups                         *)

AnchorTypes == {"TARGET", "PORTBLOCK_OFF", "LUN"}

InitAnchors ==
    /\ \/ currentResources = Undefined
       \/ \E n \in 0..MaxAnchors :
            \E ty \in [1..n -> AnchorTypes], grp \in [1..n -> GroupNames] :
               currentResources =
                   Defined([i \in 1..n |-> PCSResource(MemberName(i), ty[i], grp[i])])
    /\ last = NoCall
    /\ prev = Summary(NoCall)
    /\ call = Idle
    /\ statusText = <<>>
    /\ pcsGroups = <<>>
    /\ classified = NotClassified
    /\ scst = NoScst

NextAnchors ==
    /\ last.op = "none"
    /\ getAnchorsForGroup("g1")

SpecAnchors == InitAnchors /\ [][NextAnchors]_vars

\* the snapshot's members of the group of the call
AnchorMembers ==
    {i \in 1..Len(currentResources.items) :
        currentResources.items[i].resourceGroup = last.in.group}

\* the type the snapshot gives the id as a member of the group
ResolvedType(id) ==
    IF \E i \in AnchorMembers : currentResources.items[i].name = id
    THEN currentResources.items[
             CHOOSE i \in AnchorMembers : currentResources.items[i].name = id].resourceType
    ELSE "undefined"

\* the member ids the fresh query gave for the group of the call
AnsweredIds == MemberIds(pcsGroups, last.in.group)

\* id is the first of the answered member ids that resolves to the type
FirstResolved(id, type) ==
    \E k \in 1..Len(AnsweredIds) :
        /\ AnsweredIds[k] = id
        /\ ResolvedType(id) = type
        /\ \A j \in 1..(k - 1) : ResolvedType(AnsweredIds[j]) # type

\* the fresh configuration query was issued and answered
FreshAnswered ==
    /\ Len(last.cmds) = (IF last.pre.defined THEN 1 ELSE 2)
    /\ last.cmds[Len(last.cmds)].ok

\* C12: a successful getAnchorsForGroup returns the first id of the group's
\* member_ids, as the fresh query gave them, that resolves to TARGET and the first
\* that resolves to PORTBLOCK_OFF; both are members of the group in the snapshot.
C12_AnchorsInMemberOrder ==
    (last.op = "getAnchorsForGroup" /\ last.result = "ok") =>
        /\ FreshAnswered
        /\ Len(last.ret) = 2
        /\ FirstResolved(last.ret[1], "TARGET")
        /\ FirstResolved(last.ret[2], "PORTBLOCK_OFF")
        /\ \A r \in 1..2 : \E i \in AnchorMembers :
               currentResources.items[i].name = last.ret[r]

\* two TARGETs, the member_ids list them in the other order than the snapshot
C12_Witness ==
    /\ last.op = "getAnchorsForGroup" /\ last.result = "ok"
    /\ last.pre.items = <<PCSResource(MemberName(1), "TARGET", "g1"),
                          PCSResource(MemberName(2), "TARGET", "g1"),
                          PCSResource(MemberName(3), "PORTBLOCK_OFF", "g1")>>
    /\ AnsweredIds = <<MemberName(2), MemberName(3), MemberName(1)>>
    /\ last.ret = <<MemberName(2), MemberName(3)>>

AnchorFailures == {NoMembersError, NoGroupError, NoTargetError, NoPortBlockOffError}

\* C13: getAnchorsForGroup fails with a message of its own, quoting the group, when
\* the snapshot has no member of the group, when the fresh query has no such
\* group, when no member id resolves to TARGET and when none resolves to
\* PORTBLOCK_OFF; a success carries both anchors.
C13_AnchorFailures ==
    last.op = "getAnchorsForGroup" =>
        /\ Cardinality(AnchorFailures) = 4
        /\ last.result \in AnchorFailures => last.named = last.in.group
        /\ (currentResources.defined /\ AnchorMembers = {}) =>
               (last.result = NoMembersError /\ ~FreshAnswered)
        /\ (FreshAnswered /\ ~\E i \in 1..Len(pcsGroups) : pcsGroups[i].id = last.in.group) =>
               last.result = NoGroupError
        /\ (/\ FreshAnswered
            /\ \E i \in 1..Len(pcsGroups) : pcsGroups[i].id = last.in.group
            /\ \A k \in 1..Len(AnsweredIds) : ResolvedType(AnsweredIds[k]) # "TARGET") =>
               last.result = NoTargetError
        /\ (/\ FreshAnswered
            /\ \E i \in 1..Len(pcsGroups) : pcsGroups[i].id = last.in.group
            /\ \A k \in 1..Len(AnsweredIds) : ResolvedType(AnsweredIds[k]) # "PORTBLOCK_OFF") =>
               /\ last.result \in {NoTargetError, NoPortBlockOffError}
               /\ (\E k \in 1..Len(AnsweredIds) : ResolvedType(AnsweredIds[k]) = "TARGET")
                      => last.result = NoPortBlockOffError
        /\ last.result = "ok" =>
               /\ Len(last.ret) = 2
               /\ last.ret[1] # NoName /\ last.ret[2] # NoName

\* the snapshot has a PORTBLOCK_OFF member that the group of the cluster manager
\* does not list
C13_Witness ==
    /\ last.op = "getAnchorsForGroup"
    /\ last.result = NoPortBlockOffError /\ last.named = "g1"
    /\ last.pre.items = <<PCSResource(MemberName(1), "PORTBLOCK_OFF", "g1"),
                          PCSResource(MemberName(2), "TARGET", "g1")>>
    /\ AnsweredIds = <<MemberName(2)>>

---------------------------------------------------------------------------
(* The classification model: getResourceTypeOfPCSResource on any primitive *)

\* most nvpairs of a primitive
MaxPairs == 2

\* agent names: those of the types, and one of no type
AllAgents == {internalTypeName(t) : t \in PCSResourceType} \cup {"Dummy"}

\* instance attributes: an action that blocks, one that does not, another attribute
PairPool ==
    {[name |-> "action", value |-> "block"],
     [name |-> "action", value |-> "unblock"],
     [name |-> "portno", value |-> "block"]}

PrimitivePool ==
    {[id |-> MemberName(1), agent |-> a, nvpairs |-> nv] :
        a \in AllAgents, nv \in UNION {[1..n -> PairPool] : n \in 0..MaxPairs}}

InitType ==
    /\ currentResources = Undefined
    /\ last = NoCall
    /\ prev = Summary(NoCall)
    /\ call = Idle
    /\ statusText = <<>>
    /\ pcsGroups = <<>>
    /\ \E p \in PrimitivePool : classified = [resource |-> p, type |-> "none"]
    /\ scst = NoScst

\* the call of getResourceTypeOfPCSResource on the primitive
classify ==
    /\ classified.type = "none"
    /\ classified' = [classified EXCEPT
                         !.type = getResourceTypeOfPCSResource(classified.resource)]
    /\ UNCHANGED <<currentResources, last, prev, call, statusText, pcsGroups, scst>>

NextType == classify

SpecType == InitType /\ [][NextType]_vars

\* the values of the primitive's action attributes, in order
ActionValues ==
    LET nv == classified.resource.nvpairs
        at == SelectSeqBy(nv, {i \in 1..Len(nv) : nv[i].name = "action"})
    IN  [i \in 1..Len(at) |-> at[i].value]

\* the types whose agent name is the primitive's
TypesOfAgent == {t \in PCSResourceType : internalTypeName(t) = classified.resource.agent}

\* C17 as claimed: a primitive of the agent of a type t that is not port-block
\* classifies as t; a primitive of the port-block agent classifies as PORTBLOCK_ON
\* when its action attribute is block and as PORTBLOCK_OFF otherwise.
C17_ClassificationAsClaimed ==
    classified.type # "none" =>
        /\ \A t \in TypesOfAgent :
               internalTypeName(t) # "portblock" => classified.type = t
        /\ classified.resource.agent = "portblock" =>
               classified.type =
                   IF ActionValues # <<>> /\ ActionValues[1] = "block"
                   THEN "PORTBLOCK_ON" ELSE "PORTBLOCK_OFF"

\* C17 as amended: as claimed for a port-block primitive that has an action
\* attribute, the first one deciding; a port-block primitive without an action
\* attribute, like a primitive of an agent of no type, gets no type.
C17_Classification ==
    classified.type # "none" =>
        /\ \A t \in TypesOfAgent :
               internalTypeName(t) # "portblock" => classified.type = t
        /\ (classified.resource.agent = "portblock" /\ ActionValues # <<>>) =>
               classified.type =
                   IF ActionValues[1] = "block" THEN "PORTBLOCK_ON" ELSE "PORTBLOCK_OFF"
        /\ (classified.resource.agent = "portblock" /\ ActionValues = <<>>) =>
               classified.type = "undefined"
        /\ TypesOfAgent = {} => classified.type = "undefined"
        /\ classified.type # "undefined" => classified.type \in TypesOfAgent

\* a port-block primitive whose second attribute is the action, not blocking
C17_Witness ==
    /\ classified.resource.agent = "portblock"
    /\ classified.resource.nvpairs = <<[name |-> "portno", value |-> "block"],
                                       [name |-> "action", value |-> "unblock"]>>
    /\ classified.type = "PORTBLOCK_OFF"

---------------------------------------------------------------------------
(* The operations model: one call of any operation of PCSResourceManager on  *)
(* any snapshot                                                               *)

\* no call made yet
OneCall == last.op = "none" /\ call.pc = "idle"

\* names passed to the operations: those of the lifecycle model and the cached ones
OpsNames ==
    ResourceNames \cup {currentResources.items[i].name : i \in 1..Len(currentResources.items)}

NextOps ==
    \/ last.op = "none" /\ getGroupActiveNode("g1")
    \/ LocateIssue
    \/ LocateReturn
    \/ Decide
    \/ StatusReturn
    \/ OneCall /\ fetchResources
    \/ OneCall /\ \E n \in OpsNames : fetchResourceByName(n)
    \/ OneCall /\ \E n \in InputNames, a \in ArgPool, t \in LifecycleTypes :
                      createResource(n, a, t)
    \/ OneCall /\ \E n \in OpsNames : deleteResource(n)
    \/ OneCall /\ \E n \in OpsNames : disableResource(n)
    \/ OneCall /\ \E g \in GroupNames : deleteResourceGroup(g)
    \/ OneCall /\ \E n \in OpsNames, a \in ArgPool : updateResource(n, a)
    \/ OneCall /\ \E g \in GroupNames : getAnchorsForGroup(g)
    \/ OneCall /\ \E i \in 0..MaxMembers, t \in LifecycleTypes, g \in GroupNames :
                      \E n \in (IF i = 0 THEN {NewName}
                                 ELSE {currentResources.items[k].name :
                                          k \in {i} \cap 1..Len(currentResources.items)}) :
                         addResourceToGroup(i, n, t, g) /\ UNCHANGED pcsGroups
    \/ OneCall /\ \E n \in OpsNames, g \in GroupNames : removeResourceFromGroup(g, n)
    \/ OneCall /\ \E n \in OpsNames, g \in GroupNames : constrainResourceToGroup(n, g)
    \/ OneCall /\ \E n \in OpsNames, g \in GroupNames : unconstainResourceFromGroup(n, g)
    \/ OneCall /\ \E n \in OpsNames : enableResources(n)
    \/ OneCall /\ \E n \in OpsNames, g \in GroupNames : orderResourceBeforeGroup(n, g)
    \/ OneCall /\ \E n \in OpsNames, g \in GroupNames : removeResourcefromOrderGroup(n, g)
    \/ OneCall /\ \E n \in OpsNames : fetchResourceConfig(n)

SpecOps == InitNode /\ [][NextOps]_vars

\* the commands of the call so far, its end and its result
IssuedCmds == IF call.pc = "idle" THEN last.cmds ELSE call.cmds

Ended == IF call.pc = "idle" THEN last.op # "none" ELSE call.pc = "done"

Outcome == IF call.pc = "idle" THEN last.result ELSE call.result

\* the failure a call returns when that command failed
FailureOf(cmd) ==
    CASE cmd.kind = "resource config" /\ cmd.res = NoName ->
             {"Unable to get current PCS configuration", ConfigError}
      [] cmd.kind = "locate" -> {"Failed to locate"}
      [] cmd.kind = "status" -> {"Failed to query pcs status"}
      [] OTHER -> {RemoteError}

SameCommand(c, d) ==
    c.kind = d.kind /\ c.res = d.res /\ c.grp = d.grp /\ c.before = d.before

C22_CommandOnlyKeepsCache ==
    last.op \in {"disableResource", "updateResource", "removeResourceFromGroup"} =>
        /\ currentResources = last.pre
        /\ Len(last.cmds) <= 1

\* a cached member of a group was removed from it: the snapshot still holds it in
\* the group
C22_Witness ==
    /\ last.op = "removeResourceFromGroup" /\ last.result = "ok"
    /\ Len(last.cmds) = 1 /\ last.cmds[1].ok
    /\ \E i \in 1..Len(currentResources.items) :
          /\ currentResources.items[i].name = last.in.name
          /\ currentResources.items[i].resourceGroup = last.in.group

\* C23: on a populated snapshot getGroupActiveNode, getAnchorsForGroup,
\* fetchResourceByName and fetchResourceConfig leave the snapshot as it was, at
\* every step of the call and whatever its result; they issue no bulk query
\* through fetchResources.
C23_QueriesKeepPopulatedCache ==
    /\ (call.pc # "idle" /\ call.pre.defined) =>
          /\ currentResources = call.pre
          /\ \A i \in 1..Len(call.cmds) : ~IsBulkQuery(call.cmds[i])
    /\ (last.op \in {"getAnchorsForGroup", "fetchResourceByName", "fetchResourceConfig"}
          /\ last.pre.defined) =>
          /\ currentResources = last.pre
          /\ last.op = "fetchResourceByName" => last.cmds = <<>>
          /\ last.op = "getAnchorsForGroup" => Len(last.cmds) <= 1

\* getAnchorsForGroup on a populated snapshot: its own configuration query was
\* answered with a group and its members, and the snapshot is the one from before
C23_Witness ==
    /\ last.op = "getAnchorsForGroup" /\ last.pre.defined
    /\ Len(last.cmds) = 1 /\ last.cmds[1].ok
    /\ pcsGroups # <<>> /\ pcsGroups[1].member_ids # <<>>
    /\ currentResources = last.pre

---------------------------------------------------------------------------
(* The group-deletion model: one deleteResourceGroup call on any snapshot of  *)
(* resources that are in a group or in none                                   *)

InitDelete ==
    /\ \/ currentResources = Undefined
       \/ \E n \in 0..MaxMembers :
            \E grp \in [1..n -> GroupNames \cup {NoGroup}] :
               currentResources =
                  Defined([i \in 1..n |-> PCSResource(MemberName(i), "VIP", grp[i])])
    /\ last = NoCall
    /\ prev = Summary(NoCall)
    /\ call = Idle
    /\ statusText = <<>>
    /\ pcsGroups = <<>>
    /\ classified = NotClassified
    /\ scst = NoScst

NextDelete == OneCall /\ \E g \in GroupNames : deleteResourceGroup(g)

SpecDelete == InitDelete /\ [][NextDelete]_vars

\* the positions of the snapshot before the call that are not in the deleted group
KeptByDelete == {i \in 1..Len(last.pre.items) :
                    last.pre.items[i].resourceGroup # last.in.group}

\* C24: after a successful deleteResourceGroup(g) no cached resource references
\* g, and the snapshot holds exactly the resources that were ungrouped or in
\* another group before, each unchanged, in the order they had.
C24_GroupDeletion ==
    (last.op = "deleteResourceGroup" /\ last.result = "ok") =>
        /\ currentResources.defined
        /\ \A i \in 1..Len(currentResources.items) :
              currentResources.items[i].resourceGroup # last.in.group
        /\ Len(currentResources.items) = Cardinality(KeptByDelete)
        /\ \A i \in KeptByDelete :
              currentResources.items[Cardinality({j \in KeptByDelete : j <= i})] =
                 last.pre.items[i]

\* the second of three resources was in the deleted group; an ungrouped one and
\* one of the other group are left, in their order
C24_Witness ==
    /\ last.op = "deleteResourceGroup" /\ last.result = "ok" /\ last.in.group = "g1"
    /\ Len(last.pre.items) = 3
    /\ last.pre.items[1].resourceGroup = NoGroup
    /\ last.pre.items[2].resourceGroup = "g1"
    /\ last.pre.items[3].resourceGroup = "g2"
    /\ currentResources.items = <<last.pre.items[1], last.pre.items[3]>>

---------------------------------------------------------------------------
(* Constraints *)

ConstraintOps ==
    {"constrainResourceToGroup", "unconstainResourceFromGroup",
     "orderResourceBeforeGroup", "removeResourcefromOrderGroup"}

\* C26: constrainResourceToGroup, unconstainResourceFromGroup,
\* orderResourceBeforeGroup and removeResourcefromOrderGroup each issue exactly
\* one command and leave the snapshot as it was; the identifier a removal names
\* is colocation-RBD_<resource>-<group>-INFINITY or
\* order-RBD_<resource>-<group>-mandatory with the resource name and the group
\* name of the call, whatever the snapshot holds.
C26_ConstraintsKeepNoRecord ==
    last.op \in ConstraintOps =>
        /\ Len(last.cmds) = 1
        /\ currentResources = last.pre
        /\ last.op = "constrainResourceToGroup" =>
              /\ last.cmds[1].kind = "constraint colocation add"
              /\ last.cmds[1].res = last.in.name /\ last.cmds[1].grp = last.in.group
        /\ last.op = "orderResourceBeforeGroup" =>
              /\ last.cmds[1].kind = "constraint order"
              /\ last.cmds[1].res = last.in.name /\ last.cmds[1].grp = last.in.group
        /\ last.op = "unconstainResourceFromGroup" =>
              /\ last.cmds[1].kind = "constraint remove"
              /\ last.cmds[1].res = <<"colocation-RBD_">> \o last.in.name
                                       \o <<"-", last.in.group, "-INFINITY">>
        /\ last.op = "removeResourcefromOrderGroup" =>
              /\ last.cmds[1].kind = "constraint remove"
              /\ last.cmds[1].res = <<"order-RBD_">> \o last.in.name
                                       \o <<"-", last.in.group, "-mandatory">>

\* the colocation of a resource with g1 was removed while the snapshot holds the
\* resource in g2
C26_Witness ==
    /\ last.op = "unconstainResourceFromGroup" /\ last.result = "ok"
    /\ last.in.group = "g1"
    /\ \E i \in 1..Len(currentResources.items) :
          /\ currentResources.items[i].name = last.in.name
          /\ currentResources.items[i].resourceGroup = "g2"

---------------------------------------------------------------------------
(* ConfigurationManager: the SCST configuration file at the configured path  *)
(* and the configuration SCST runs.  A file content is an atomic string;     *)
(* "absent" is no file, "" the empty file.                                    *)

AbsolutePathError == "must be an absolute path"
SyntaxError == "Config file syntax validation failed."

\* new Path(path).isAbsolute()
IsAbsolute(path) == Len(path) > 0 /\ path[1] = "/"

\* the path check without the test for a line break
ensureAbsoluteOnly(path) == IF ~IsAbsolute(path) THEN AbsolutePathError ELSE "ok"

\* ensureAbsolutePath of ConfigurationManager: "ok", or the failure
ensureAbsolutePath(path) ==
    IF ~IsAbsolute(path) THEN AbsolutePathError
    ELSE IF HasLineBreak(path) THEN SingleLineError
    ELSE "ok"

\* the configurations SCST accepts, and a text it rejects
Configs == {"confA", "confB"}
NewConfigs == Configs \cup {"broken"}

\* iscsi.confPath of the user settings
ConfPaths ==
    {<<"/", "c">>, <<"c">>, <<"/", "c", "\n">>, <<"/", "\r", "c">>, <<"c", "\n">>, <<>>}

\* a command on the configuration file, or a write of `content` into it
ConfCmd(kind, path, content, ok) == Cmd(kind, FALSE, path, content, NoName, ok)

FileCreate(path, ok) == ConfCmd("file create", path, NoGroup, ok)
FileWrite(path, content, ok) == ConfCmd("file write", path, content, ok)
WriteConfig(path, ok) == ConfCmd("scstadmin -write_config", path, NoGroup, ok)
Cat(path, ok) == ConfCmd("cat", path, NoGroup, ok)
CheckConfig(path, ok) == ConfCmd("scstadmin -check_config", path, NoGroup, ok)
ForceConfig(path, ok) == ConfCmd("scstadmin -config -force -noprompt", path, NoGroup, ok)
EnableScst(ok) == ConfCmd("systemctl enable scst", <<>>, NoGroup, ok)
ApplyConfig(path, ok) == ConfCmd("scstadmin -config", path, NoGroup, ok)

\* File.create(true): the file exists afterwards, with the content it had
Created(st) == [st EXCEPT !.file = IF @ = "absent" THEN "" ELSE @]

\* File.write(content)
Written(st, content) == [st EXCEPT !.file = content]

\* scstadmin -write_config: the running configuration is written into the file
Exported(st) == [st EXCEPT !.file = st.live]

\* scstadmin -config: SCST runs what the file holds
Applied(st) == [st EXCEPT !.live = st.file]

\* one way a chain can end: result, commands issued, the host afterwards, value
Run(result, cmds, st, out) == [result |-> result, cmds |-> cmds, st |-> st, out |-> out]

\* exportConfiguration: write_config, then cat of the file
ExportOutcomes(st) ==
    LET path == st.path
    IN  IF ensureAbsolutePath(path) # "ok"
        THEN {Run(ensureAbsolutePath(path), <<>>, st, "")}
        ELSE {Run(RemoteError, <<WriteConfig(path, FALSE)>>, st, ""),
              Run(RemoteError, <<WriteConfig(path, TRUE), Cat(path, FALSE)>>,
                  Exported(st), ""),
              Run("ok", <<WriteConfig(path, TRUE), Cat(path, TRUE)>>,
                  Exported(st), Exported(st).file)}

\* .map(() => execute(...)): the command runs, and whatever it returns is wrapped
\* into a success
mapOf(inner) == "ok"

\* importConfiguration: create, write, check, and the forced apply inside .map;
\* .mapErr replaces every failure of the chain
ImportOutcomes(st, newConfig) ==
    LET path == st.path
        create == <<FileCreate(path, TRUE)>>
        write == Append(create, FileWrite(path, newConfig, TRUE))
        check == Append(write, CheckConfig(path, TRUE))
        w == Written(Created(st), newConfig)
    IN  IF ensureAbsolutePath(path) # "ok"
        THEN {Run(ensureAbsolutePath(path), <<>>, st, "")}
        ELSE {Run(SyntaxError, <<FileCreate(path, FALSE)>>, st, ""),
              Run(SyntaxError, Append(create, FileWrite(path, newConfig, FALSE)),
                  Created(st), ""),
              Run(SyntaxError, Append(write, CheckConfig(path, FALSE)), w, "")}
             \cup (IF newConfig \in Configs
                   THEN {Run(mapOf(RemoteError), Append(check, ForceConfig(path, FALSE)),
                             w, ""),
                         Run(mapOf("ok"), Append(check, ForceConfig(path, TRUE)),
                             Applied(w), "")}
                   ELSE {})

\* what follows exportConfiguration in saveCurrentConfiguration: the write inside
\* .map, systemctl enable scst, scstadmin -config
AfterExport(e, before) ==
    UNION {LET cmds == before \o e.cmds \o <<FileWrite(e.st.path, e.out, wrote)>>
               st == IF wrote THEN Written(e.st, e.out) ELSE e.st
           IN  IF mapOf(IF wrote THEN "ok" ELSE RemoteError) # "ok"
               THEN {Run(RemoteError, cmds, st, "")}
               ELSE {Run(RemoteError, Append(cmds, EnableScst(FALSE)), st, ""),
                     Run(RemoteError, cmds \o <<EnableScst(TRUE),
                                                ApplyConfig(st.path, FALSE)>>, st, ""),
                     Run("ok", cmds \o <<EnableScst(TRUE), ApplyConfig(st.path, TRUE)>>,
                         Applied(st), "")}
           : wrote \in BOOLEAN}

\* saveCurrentConfiguration: create, exportConfiguration, and the rest
SaveOutcomes(st) ==
    LET path == st.path
        create == <<FileCreate(path, TRUE)>>
    IN  IF ensureAbsolutePath(path) # "ok"
        THEN {Run(ensureAbsolutePath(path), <<>>, st, "")}
        ELSE {Run(RemoteError, <<FileCreate(path, FALSE)>>, st, "")}
             \cup UNION {IF e.result # "ok"
                         THEN {Run(e.result, create \o e.cmds, e.st, "")}
                         ELSE AfterExport(e, create)
                         : e \in ExportOutcomes(Created(st))}

\* a call of the configuration manager ends
ConfDone(op, newConfig, o) ==
    /\ scst' = [o.st EXCEPT !.before = scst.file, !.saves = 0]
    /\ Finish(Call(op, In(NoName, NoGroup, <<newConfig>>, "undefined", 0),
                   currentResources, o.result, o.cmds, <<>>))
    /\ UNCHANGED <<currentResources, call, statusText, pcsGroups, classified>>

exportConfiguration ==
    \E o \in ExportOutcomes(scst) : ConfDone("exportConfiguration", "", o)

importConfiguration(newConfig) ==
    \E o \in ImportOutcomes(scst, newConfig) : ConfDone("importConfiguration", newConfig, o)

saveCurrentConfiguration ==
    \E o \in SaveOutcomes(scst) : ConfDone("saveCurrentConfiguration", "", o)

---------------------------------------------------------------------------
(* The configuration model: any sequence of calls on one ConfigurationManager *)

InitConf ==
    /\ currentResources = Undefined
    /\ last = NoCall
    /\ prev = Summary(NoCall)
    /\ call = Idle
    /\ statusText = <<>>
    /\ pcsGroups = <<>>
    /\ classified = NotClassified
    /\ \E path \in ConfPaths, file \in {"absent", "confA"}, live \in Configs :
          scst = [path |-> path, file |-> file, live |-> live, before |-> file,
                  saves |-> 0, input |-> NoInput]

NextConf ==
    \/ exportConfiguration
    \/ \E newConfig \in NewConfigs : importConfiguration(newConfig)
    \/ saveCurrentConfiguration

SpecConf == InitConf /\ [][NextConf]_vars

\* the positions of the commands of that kind in the last call
CmdsOf(kind) == {i \in 1..Len(last.cmds) : last.cmds[i].kind = kind}

\* C27: importConfiguration issues the forced apply only after the syntax check
\* succeeded, returns success only when the forced apply succeeded, and returns
\* a failure when the forced apply failed.
C27_ImportSucceedsOnlyIfApplied ==
    last.op = "importConfiguration" =>
        \A i \in 1..Len(last.cmds) :
            /\ last.cmds[i].kind = "scstadmin -config -force -noprompt" =>
                  /\ i > 1
                  /\ last.cmds[i - 1] = CheckConfig(scst.path, TRUE)
                  /\ ~last.cmds[i].ok => last.result # "ok"
            /\ last.result = "ok" =>
                  \E j \in CmdsOf("scstadmin -config -force -noprompt") : last.cmds[j].ok

\* C28: when importConfiguration fails at the syntax check the configuration file
\* holds what it held before the call.
C28_FailedCheckKeepsFile ==
    (/\ last.op = "importConfiguration"
     /\ last.result # "ok"
     /\ \E i \in CmdsOf("scstadmin -check_config") : ~last.cmds[i].ok) =>
        scst.file = scst.before

\* C29: saveCurrentConfiguration issues systemctl enable scst and scstadmin
\* -config only after the write of the exported configuration succeeded; when
\* the write failed it issues neither and returns a failure.
C29_SaveCommandsAfterWrite ==
    last.op = "saveCurrentConfiguration" =>
        /\ \A i \in CmdsOf("systemctl enable scst") \cup CmdsOf("scstadmin -config") :
              \E j \in CmdsOf("file write") : j < i /\ last.cmds[j].ok
        /\ \A j \in CmdsOf("file write") :
              ~last.cmds[j].ok =>
                  /\ CmdsOf("systemctl enable scst") \cup CmdsOf("scstadmin -config") = {}
                  /\ last.result # "ok"

---------------------------------------------------------------------------
(* ISCSIDriverSingleServer: validations, writes to the SCST management nodes, *)
(* saveCurrentConfiguration                                                   *)

NoWhitespaceError == "must not contain whitespace"
PositiveNumberError == "must be a positive number"

\* /\s/.test(value)
HasWhitespace(value) == \E i \in 1..Len(value) : value[i] \in {" ", "\t", "\n", "\r"}

ensureNoWhitespace(value) == IF HasWhitespace(value) THEN NoWhitespaceError ELSE "ok"

\* ensureAbsolutePath of the driver
ensureAbsoluteDevicePath(value) == IF IsAbsolute(value) THEN "ok" ELSE AbsolutePathError

\* Number.isFinite(value) && value > 0
ensurePositiveNumber(value) ==
    IF value.finite /\ value.n > 0 THEN "ok" ELSE PositiveNumberError

\* a validation that is chained behind another with andThen
andThenCheck(first, second) == IF first # "ok" THEN first ELSE second

\* only the first validation of the list counts
combineFirstOnly(results) == IF results = <<>> THEN "ok" ELSE results[1]

\* ResultAsync.combine([...]): the first failure of the list, or success
combine(results) ==
    LET failed == {i \in 1..Len(results) : results[i] # "ok"}
    IN  IF failed = {} THEN "ok"
        ELSE results[CHOOSE i \in failed : \A j \in failed : i <= j]

\* writeScstMgmt(path, content): content and a line feed written into the node
MgmtWrite(path, content, ok) ==
    Cmd("mgmt write", FALSE, path, NoGroup, Append(content, "\n"), ok)

HandlerDirectory(deviceType) ==
    IF deviceType = "BlockIO" THEN <<"/sys/kernel/scst_tgt/handlers/vdisk_blockio">>
    ELSE <<"/sys/kernel/scst_tgt/handlers/vdisk_fileio">>

targetManagementDirectory == <<"/sys/kernel/scst_tgt/targets/iscsi">>

getTargetPath(name) == targetManagementDirectory \o <<"/">> \o name

\* every write is issued although the k-th failed
WritesAllDespite(writes, k) ==
    [i \in 1..Len(writes) |-> IF i = k THEN [writes[i] EXCEPT !.ok = FALSE] ELSE writes[i]]

\* the writes one after the other until one fails: the k-th is the one that failed
WritesUpTo(writes, k) ==
    [i \in 1..k |-> IF i = k THEN [writes[i] EXCEPT !.ok = FALSE] ELSE writes[i]]

\* validations, then the writes, then saveCurrentConfiguration
DriverOutcomes(st, checks, writes) ==
    IF combine(checks) # "ok"
    THEN {Run(combine(checks), <<>>, st, "")}
    ELSE {Run(RemoteError, WritesUpTo(writes, k), st, "") : k \in 1..Len(writes)}
         \cup {Run(o.result, writes \o o.cmds, [o.st EXCEPT !.saves = 1], "") :
                  o \in SaveOutcomes(st)}

\* one call of a mutating operation of the driver
driverCall(op, input, checks, writes) ==
    /\ \E o \in DriverOutcomes([scst EXCEPT !.saves = 0], checks, writes) :
          /\ scst' = [o.st EXCEPT !.before = scst.file, !.input = input]
          /\ Finish(Call(op, NoIn, currentResources, o.result, o.cmds, <<>>))
    /\ UNCHANGED <<currentResources, call, statusText, pcsGroups, classified>>

Input(names, path, size) == [names |-> names, path |-> path, size |-> size]

addVirtualDevice(deviceName, filePath, blockSize, deviceType) ==
    driverCall("addVirtualDevice", Input(<<deviceName>>, filePath, blockSize),
               <<ensureNoWhitespace(deviceName),
                 andThenCheck(ensureAbsoluteDevicePath(filePath),
                              ensureNoWhitespace(filePath)),
                 ensurePositiveNumber(blockSize)>>,
               <<MgmtWrite(HandlerDirectory(deviceType) \o <<"/mgmt">>,
                           <<"add_device ">> \o deviceName \o <<" filename=">>
                           \o filePath \o <<";blocksize=", blockSize.text>>, TRUE)>>)

removeVirtualDevice(deviceName, deviceType) ==
    driverCall("removeVirtualDevice", Input(<<deviceName>>, <<>>, NoInput.size),
               <<ensureNoWhitespace(deviceName)>>,
               <<MgmtWrite(HandlerDirectory(deviceType) \o <<"/mgmt">>,
                           <<"del_device ">> \o deviceName, TRUE)>>)

createTarget(name) ==
    driverCall("createTarget", Input(<<name>>, <<>>, NoInput.size),
               <<ensureNoWhitespace(name)>>,
               <<MgmtWrite(targetManagementDirectory \o <<"/mgmt">>,
                           <<"add_target ">> \o name, TRUE),
                 MgmtWrite(targetManagementDirectory \o <<"/enabled">>, <<"1">>, TRUE),
                 MgmtWrite(getTargetPath(name) \o <<"/enabled">>, <<"1">>, TRUE)>>)

removeTarget(name) ==
    driverCall("removeTarget", Input(<<name>>, <<>>, NoInput.size),
               <<ensureNoWhitespace(name)>>,
               <<MgmtWrite(targetManagementDirectory \o <<"/mgmt">>,
                           <<"del_target ">> \o name, TRUE)>>)

\* the operations that validate two names and write one line into one node
twoNames(op, first, second, path, content) ==
    driverCall(op, Input(<<first, second>>, <<>>, NoInput.size),
               <<ensureNoWhitespace(first), ensureNoWhitespace(second)>>,
               <<MgmtWrite(path, content, TRUE)>>)

addPortalToTarget(name, address) ==
    twoNames("addPortalToTarget", name, address, getTargetPath(name) \o <<"/../mgmt">>,
             <<"add_target_attribute ">> \o name \o <<" allowed_portal=">> \o address)

deletePortalFromTarget(name, address) ==
    twoNames("deletePortalFromTarget", name, address,
             getTargetPath(name) \o <<"/../mgmt">>,
             <<"del_target_attribute ">> \o name \o <<" allowed_portal=">> \o address)

addInitiatorGroupToTarget(name, groupName) ==
    twoNames("addInitiatorGroupToTarget", name, groupName,
             getTargetPath(name) \o <<"/ini_groups/mgmt">>, <<"create ">> \o groupName)

deleteInitiatorGroupFromTarget(name, groupName) ==
    twoNames("deleteInitiatorGroupFromTarget", name, groupName,
             getTargetPath(name) \o <<"/ini_groups/mgmt">>, <<"del ">> \o groupName)

\* initiatorGroup.devicePath, a field of the object the caller passes
devicePath == <<"/sys/kernel/scst_tgt/targets/iscsi/t/ini_groups/g">>

addInitiatorToGroup(groupName, initiatorName) ==
    twoNames("addInitiatorToGroup", groupName, initiatorName,
             devicePath \o <<"/initiators/mgmt">>, <<"add ">> \o initiatorName)

removeInitiatorFromGroup(groupName, initiatorName) ==
    twoNames("removeInitiatorFromGroup", groupName, initiatorName,
             devicePath \o <<"/initiators/mgmt">>, <<"del ">> \o initiatorName)

addLogicalUnitNumberToGroup(groupName, lunName, unitNumber) ==
    twoNames("addLogicalUnitNumberToGroup", groupName, lunName,
             devicePath \o <<"/luns/mgmt">>,
             <<"add ">> \o lunName \o <<" ", unitNumber>>)

removeLogicalUnitNumberFromGroup(groupName, unitNumber) ==
    driverCall("removeLogicalUnitNumberFromGroup",
               Input(<<groupName>>, <<>>, NoInput.size),
               <<ensureNoWhitespace(groupName)>>,
               <<MgmtWrite(devicePath \o <<"/luns/mgmt">>, <<"del ", unitNumber>>, TRUE)>>)

addCHAPConfigurationToTarget(name, chapType, username, password) ==
    driverCall("addCHAPConfigurationToTarget",
               Input(<<name, username, password>>, <<>>, NoInput.size),
               <<ensureNoWhitespace(name), ensureNoWhitespace(username),
                 ensureNoWhitespace(password)>>,
               <<MgmtWrite(getTargetPath(name) \o <<"/../mgmt">>,
                           <<"add_target_attribute ">> \o name \o <<" ", chapType, "=">>
                           \o username \o <<" ">> \o password, TRUE)>>)

removeCHAPConfigurationFromTarget(name, chapType, username) ==
    twoNames("removeCHAPConfigurationFromTarget", name, username,
             getTargetPath(name) \o <<"/../mgmt">>,
             <<"del_target_attribute ">> \o name \o <<" ", chapType, "=">> \o username)

---------------------------------------------------------------------------
(* The driver model: one mutating operation of the driver on any host *)

NamePool == {<<"t">>, <<"t", " ">>, <<"\t">>}
DevicePaths == {<<"/", "d">>, <<"d">>, <<"/", "d", " ">>}
BlockSizes ==
    {[finite |-> TRUE, n |-> 512, text |-> "512"],
     [finite |-> TRUE, n |-> 0, text |-> "0"],
     [finite |-> TRUE, n |-> -1, text |-> "-1"],
     [finite |-> FALSE, n |-> 1, text |-> "Infinity"],
     [finite |-> FALSE, n |-> 0, text |-> "NaN"]}
DeviceTypes == {"BlockIO", "FileIO"}
CHAPTypes == {"IncomingUser", "OutgoingUser"}
UnitNumbers == {"0", "1"}

NextDriver ==
    \/ OneCall /\ \E n \in NamePool, f \in DevicePaths, b \in BlockSizes, d \in DeviceTypes :
                      addVirtualDevice(n, f, b, d)
    \/ OneCall /\ \E n \in NamePool, d \in DeviceTypes : removeVirtualDevice(n, d)
    \/ OneCall /\ \E n \in NamePool : createTarget(n)
    \/ OneCall /\ \E n \in NamePool : removeTarget(n)
    \/ OneCall /\ \E n \in NamePool, a \in NamePool : addPortalToTarget(n, a)
    \/ OneCall /\ \E n \in NamePool, a \in NamePool : deletePortalFromTarget(n, a)
    \/ OneCall /\ \E n \in NamePool, g \in NamePool : addInitiatorGroupToTarget(n, g)
    \/ OneCall /\ \E n \in NamePool, g \in NamePool : deleteInitiatorGroupFromTarget(n, g)
    \/ OneCall /\ \E g \in NamePool, i \in NamePool : addInitiatorToGroup(g, i)
    \/ OneCall /\ \E g \in NamePool, i \in NamePool : removeInitiatorFromGroup(g, i)
    \/ OneCall /\ \E g \in NamePool, l \in NamePool, u \in UnitNumbers :
                      addLogicalUnitNumberToGroup(g, l, u)
    \/ OneCall /\ \E g \in NamePool, u \in UnitNumbers :
                      removeLogicalUnitNumberFromGroup(g, u)
    \/ OneCall /\ \E n \in NamePool, c \in CHAPTypes, u \in NamePool, p \in NamePool :
                      addCHAPConfigurationToTarget(n, c, u, p)
    \/ OneCall /\ \E n \in NamePool, c \in CHAPTypes, u \in NamePool :
                      removeCHAPConfigurationFromTarget(n, c, u)

SpecDriver == InitConf /\ [][NextDriver]_vars

DriverOps ==
    {"addVirtualDevice", "removeVirtualDevice", "createTarget", "removeTarget",
     "addPortalToTarget", "deletePortalFromTarget", "addInitiatorGroupToTarget",
     "deleteInitiatorGroupFromTarget", "addInitiatorToGroup", "removeInitiatorFromGroup",
     "addLogicalUnitNumberToGroup", "removeLogicalUnitNumberFromGroup",
     "addCHAPConfigurationToTarget", "removeCHAPConfigurationFromTarget"}

\* a character the regular expression \s matches
Blank(c) == c \in {" ", "\t", "\n", "\r"}

\* one of the validated inputs of the last call is not valid
InvalidInput ==
    \/ \E k \in 1..Len(scst.input.names) :
          \E i \in 1..Len(scst.input.names[k]) : Blank(scst.input.names[k][i])
    \/ /\ last.op = "addVirtualDevice"
       /\ \/ scst.input.path = <<>>
          \/ scst.input.path[1] # "/"
          \/ \E i \in 1..Len(scst.input.path) : Blank(scst.input.path[i])
          \/ ~scst.input.size.finite
          \/ scst.input.size.n <= 0

\* C30: a mutating operation of the driver one of whose validations fails (a
\* blank in a validated name or in the device path, a device path that is not
\* absolute, a block size that is not a positive finite number) returns a
\* failure, has written into no management node, has issued no command and has
\* not invoked saveCurrentConfiguration; the configuration file and the running
\* configuration are what they were.
C30_ValidationBeforeWrites ==
    (last.op \in DriverOps /\ InvalidInput) =>
        /\ last.result \in {NoWhitespaceError, AbsolutePathError, PositiveNumberError}
        /\ last.cmds = <<>>
        /\ scst.saves = 0
        /\ scst.file = scst.before

\* the password of a CHAP configuration holds a blank, the target name and the
\* user name are fine
C30_Witness ==
    /\ last.op = "addCHAPConfigurationToTarget"
    /\ scst.input.names = << <<"t">>, <<"t">>, <<"t", " ">> >>
    /\ last.result = NoWhitespaceError
    /\ last.cmds = <<>> /\ scst.saves = 0

\* the positions of the management-node writes among the commands of the last call
MgmtWrites == CmdsOf("mgmt write")

\* the management-node writes the operation makes when none fails
WritesOf(op) == IF op = "createTarget" THEN 3 ELSE 1

\* C31: in a mutating operation of the driver the management-node writes come
\* first and in the order of the code (createTarget: add_target into the mgmt
\* node, 1 into the global enabled node, 1 into the target's enabled node);
\* saveCurrentConfiguration is invoked at most once, and it is invoked exactly
\* when every write of the operation has been issued and succeeded, so each of
\* its commands comes after them; a write that failed is the last command of
\* the call, the save is not invoked and the operation returns that failure.
C31_SaveAfterWrites ==
    last.op \in DriverOps =>
        /\ MgmtWrites = 1..Cardinality(MgmtWrites)
        /\ Cardinality(MgmtWrites) <= WritesOf(last.op)
        /\ scst.saves \in {0, 1}
        /\ scst.saves = 1 <=>
              /\ Cardinality(MgmtWrites) = WritesOf(last.op)
              /\ \A i \in MgmtWrites : last.cmds[i].ok
        /\ Len(last.cmds) > Cardinality(MgmtWrites) => scst.saves = 1
        /\ \A i \in MgmtWrites :
              ~last.cmds[i].ok =>
                  /\ i = Len(last.cmds)
                  /\ scst.saves = 0
                  /\ last.result = RemoteError
        /\ last.op = "createTarget" =>
              /\ 1 \in MgmtWrites =>
                    /\ last.cmds[1].res = <<"/sys/kernel/scst_tgt/targets/iscsi", "/mgmt">>
                    /\ last.cmds[1].before =
                          <<"add_target ">> \o scst.input.names[1] \o <<"\n">>
              /\ 2 \in MgmtWrites =>
                    /\ last.cmds[2].res =
                          <<"/sys/kernel/scst_tgt/targets/iscsi", "/enabled">>
                    /\ last.cmds[2].before = <<"1", "\n">>
              /\ 3 \in MgmtWrites =>
                    /\ last.cmds[3].res =
                          <<"/sys/kernel/scst_tgt/targets/iscsi", "/">>
                          \o scst.input.names[1] \o <<"/enabled">>
                    /\ last.cmds[3].before = <<"1", "\n">>

\* createTarget: the three writes succeeded, then the save ran and succeeded
C31_Witness ==
    /\ last.op = "createTarget" /\ last.result = "ok"
    /\ MgmtWrites = {1, 2, 3}
    /\ scst.saves = 1
    /\ Len(last.cmds) = 9
    /\ last.cmds[9].kind = "scstadmin -config" /\ last.cmds[9].ok

\* createTarget: the write of the global enabled flag failed
C31_WriteFailed ==
    /\ last.op = "createTarget" /\ last.result = RemoteError
    /\ Len(last.cmds) = 2 /\ last.cmds[1].ok /\ ~last.cmds[2].ok
    /\ scst.saves = 0

\* the configured path does not start with a slash
PathNotAbsolute == scst.path = <<>> \/ scst.path[1] # "/"

\* the configured path holds a carriage return or a line feed
PathHasLineBreak == \E i \in 1..Len(scst.path) : scst.path[i] \in {"\r", "\n"}

\* C32: when the configured path is not absolute, or holds a carriage return or
\* a line feed, exportConfiguration, importConfiguration and
\* saveCurrentConfiguration issue no command, create and write no file, and
\* return the failure that names the requirement: "must be an absolute path"
\* for a path that is not absolute, "must be a single line" for an absolute one
\* with a line break.
C32_PathValidatedFirst ==
    (/\ last.op \in {"exportConfiguration", "importConfiguration",
                     "saveCurrentConfiguration"}
     /\ PathNotAbsolute \/ PathHasLineBreak) =>
        /\ last.cmds = <<>>
        /\ scst.file = scst.before
        /\ last.result = IF PathNotAbsolute THEN "must be an absolute path"
                         ELSE "must be a single line"

\* importConfiguration with an absolute path that ends in a line feed
C32_Witness ==
    /\ last.op = "importConfiguration"
    /\ scst.path = <<"/", "c", "\n">>
    /\ last.result = "must be a single line"
    /\ last.cmds = <<>>
    /\ scst.file = scst.before

====
